---- MODULE Spec2Model ----
(***************************************************************************)
(* State-machine model of the process monitor's ffi_build C API            *)
(* (src/windows/ffi_build/process_monitor_api.cpp): the process-wide       *)
(* globals, the calls of one controller thread (plus a second thread that  *)
(* may call cleanup_process_monitor), the background monitor threads and   *)
(* the instrumentation service's delivery thread running Indicate.         *)
(***************************************************************************)
EXTENDS Integers, Sequences, FiniteSets, TLC

\* -------------------------------------------------------------- bounds
MaxThreads == 2      \* background threads that may be spawned in one run
MaxRecords == 2      \* raw records the service delivers in one run
MaxHandles == 2      \* CreateEvent calls that succeed in one run
MaxFlood == 1200     \* enqueues of the queue-cap specification
MaxQueued == 3       \* records delivered in the record specification
MaxWoken == 1        \* records delivered in the signal and full-queue runs
MaxListens == 3      \* OnListen calls of the plugin specification

\* --------------------------------------------------- program constants
QUEUE_CAP == 1000    \* while (g_event_queue.size() > 1000)
NAME_BUF == 512      \* char process_name[512]
INFINITE == -1       \* wait_for_events(-1): WaitForSingleObject never times out

\* ------------------------------------------------------------- domains
Callers == {"main", "aux"}
ThreadIds == 1..MaxThreads
CreationClass == "__InstanceCreationEvent"
DeletionClass == "__InstanceDeletionEvent"
EventClasses == {CreationClass, DeletionClass}
CallbackPairs == {1}        \* a callback registered together with its user data
NullCallback == 0           \* nullptr passed as the callback
CallbackArgs == CallbackPairs \cup {NullCallback}
Timeouts == {INFINITE, 50}
InitFailures == {"connect", "deletion"}
\* Every step at which Initialize() can return false, in the order of the code.
InitSteps == {"com", "locator", "connect", "blanket", "apartment", "creation",
              "deletion"}

ERR_NONE == ""
ERR_RUNNING == "Process monitor is already running"
ERR_EVENT == "Failed to create event handle"
ERR_THREAD == "Failed to start monitoring thread"
ERR_NULL_CALLBACK == "Callback function cannot be null"
ERR_COM == "Failed to initialize COM library. Error code = 0x"
ERR_SECURITY == "Failed to initialize security. Error code = 0x"
ERR_LOCATOR == "Failed to create IWbemLocator object. Error code = 0x"
ERR_CONNECT == "Could not connect to WMI. Error code = 0x"
ERR_BLANKET == "Could not set proxy blanket. Error code = 0x"
ERR_APARTMENT == "Failed to create IUnsecuredApartment. Error code = 0x"
ERR_CREATION == "ExecNotificationQueryAsync (creation) failed. Error code = 0x"
ERR_DELETION == "ExecNotificationQueryAsync (deletion) failed. Error code = 0x"

VARIABLES
    g_last_error,          \* static std::string g_last_error
    g_monitoring,          \* static std::atomic<bool> g_monitoring
    g_monitor_thread,      \* static std::thread: 0 = not joinable, else id
    g_event_queue,         \* static std::queue<ProcessEventData>
    g_com_initialized,     \* static std::atomic<bool> g_com_initialized
    g_event_available,     \* static HANDLE: 0 = nullptr, else handle id
    g_event_callback,      \* static ProcessEventCallback: 0 = nullptr
    g_callback_user_data,  \* static void*: 0 = nullptr
    g_event_sink,          \* static FFIProcessEventSink*: 0 = nullptr
    cleanup_in_progress,   \* function-static guard of cleanup_process_monitor
    hcloses,               \* per handle id: CloseHandle calls made on it
    nhandles,              \* handles created so far
    signaled,              \* state of the auto-reset event object
    threads,               \* per thread id: where the thread is
    sinks,                 \* per sink id: the FFIProcessEventSink object
    pc,                    \* per caller: where it is in its current call
    loc,                   \* per caller: the local value its call holds
    arg,                   \* argument of the controller's current call
    ret,                   \* last call the controller completed and its result
    dlv,                   \* the service's delivery thread, in Indicate or not
    nrecs,                 \* raw records delivered so far (numbers the pids)
    hist                   \* observations of the run the properties refer to

vars == <<g_last_error, g_monitoring, g_monitor_thread, g_event_queue,
          g_com_initialized, g_event_available, g_event_callback,
          g_callback_user_data, g_event_sink, cleanup_in_progress, hcloses,
          nhandles, signaled, threads, sinks, pc, loc, arg, ret, dlv, nrecs,
          hist>>

globals == <<g_last_error, g_monitoring, g_monitor_thread, g_event_queue,
             g_com_initialized, g_event_available, g_event_callback,
             g_callback_user_data, g_event_sink, cleanup_in_progress, hcloses,
             nhandles, signaled>>

\* ------------------------------------------------------------- helpers
Min(a, b) == IF a < b THEN a ELSE b
Cap2(n) == Min(n, 2)

\* A sink object: svc and stub say whether m_pSvc and m_pStubSink are non-null,
\* svcRefs and stubRefs count the references the object holds on the services
\* connection and on the stub (AddRef minus Release, below 0 once an object is
\* released more often than it was acquired), com counts the COM
\* initializations made through the object (CoInitializeEx successes minus
\* CoUninitialize calls), regC and regD say whether the two notification
\* queries are registered with the service.
NoSink == [alive |-> FALSE, svc |-> FALSE, stub |-> FALSE, regC |-> FALSE,
           regD |-> FALSE, cleanups |-> 0, deletes |-> 0, com |-> 0,
           svcRefs |-> 0, stubRefs |-> 0]

Floor2(n) == IF n < -2 THEN -2 ELSE n

HandleOpen(h) == h \in 1..nhandles /\ hcloses[h] = 0

BgAlive(t) == threads[t] \in {"new", "init", "loop"}

\* A copy that fails on a name too long for the buffer and leaves it empty
\* (strncpy_s with a plain count instead of _TRUNCATE).
NameOrEmpty(name) ==
    [id |-> name.id,
     len |-> IF name.len > NAME_BUF - 1 THEN 0 ELSE name.len]

\* strncpy_s(event_data.process_name, 512, name, _TRUNCATE): at most 511 bytes
\* and a terminator are stored.
TruncName(name) ==
    [id |-> name.id,
     len |-> IF name.len > NAME_BUF - 1 THEN NAME_BUF - 1 ELSE name.len]

\* A record whose type does not depend on the raw record's class.
MakeEventStart(raw) ==
    [event_type |-> "start",
     process_name |-> TruncName(raw.name),
     process_id |-> raw.pid]

\* The ProcessEventData Indicate builds from one raw record; process ids are
\* taken below 2^31, where the cast (int)processId changes nothing.
MakeEvent(raw) ==
    [event_type |-> IF raw.cls = CreationClass THEN "start" ELSE "stop",
     process_name |-> TruncName(raw.name),
     process_id |-> raw.pid]

RECURSIVE Trim(_)
Trim(q) == IF Len(q) > QUEUE_CAP THEN Trim(Tail(q)) ELSE q

\* A push that trims first and appends afterwards.
EnqueueTrimFirst(q, e) == Append(Trim(q), e)

\* A queue that turns the newest record away once it is full.
EnqueueDropNewest(q, e) == IF Len(q) >= QUEUE_CAP THEN q ELSE Append(q, e)

\* g_event_queue.push(event_data); while (size() > 1000) pop();
Enqueue(q, e) == Trim(Append(q, e))

\* ------------------------------------------------------ initial state
\* hist.life: how far the run is in a sequence start -> stop -> cleanup with no
\*   record enqueued after stop_monitoring returned;
\* hist.quiet: "yes" while start_monitoring has succeeded and no record has
\*   been enqueued since it emptied the queue;
\* hist.pull: a start_monitoring has succeeded and the signal has not been
\*   released since;
\* hist.teardown: the callers that got past cleanup_process_monitor's guard.
IdleDelivery == [pc |-> "idle", cls |-> CreationClass, n |-> 0, i |-> 0,
                 cb |-> 0, h |-> 0, threw |-> FALSE]

NoRet == [op |-> "none", val |-> FALSE, recs |-> <<>>]

Init ==
    /\ g_last_error = ERR_NONE
    /\ g_monitoring = FALSE
    /\ g_monitor_thread = 0
    /\ g_event_queue = <<>>
    /\ g_com_initialized = FALSE
    /\ g_event_available = 0
    /\ g_event_callback = 0
    /\ g_callback_user_data = 0
    /\ g_event_sink = 0
    /\ cleanup_in_progress = FALSE
    /\ hcloses = [h \in 1..MaxHandles |-> 0]
    /\ nhandles = 0
    /\ signaled = FALSE
    /\ threads = [t \in ThreadIds |-> "unborn"]
    /\ sinks = [t \in ThreadIds |-> NoSink]
    /\ pc = [c \in Callers |-> "idle"]
    /\ loc = [c \in Callers |-> 0]
    /\ arg = 0
    /\ ret = NoRet
    /\ dlv = IdleDelivery
    /\ nrecs = 0
    /\ hist = [life |-> "none", quiet |-> "no", pull |-> FALSE,
               teardown |-> {}]

\* ------------------------------------------- FFIProcessEventSink object
CoInitializeEx(k) == [k EXCEPT !.com = @ + 1]
CoUninitialize(k) == [k EXCEPT !.com = Floor2(@ - 1)]

\* pLoc->ConnectServer(..., &m_pSvc) succeeded.
Connected(k) == [k EXCEPT !.svc = TRUE, !.svcRefs = @ + 1]

\* m_pSvc->Release() with m_pSvc left as it is.
SvcReleased(k) == [k EXCEPT !.svcRefs = Floor2(@ - 1)]

\* pUnsecApp->CreateObjectStub(this, &m_pStubSink)
Stubbed(k) == [k EXCEPT !.stub = TRUE, !.stubRefs = @ + 1]

\* FFIProcessEventSink::Cleanup(), the same code in both API variants:
\* if (m_pSvc) { if (m_pStubSink) CancelAsyncCall; Release; = nullptr; }
\* if (m_pStubSink) { Release; = nullptr; }  CoUninitialize();
SinkCleanup(k) ==
    [k EXCEPT !.regC = IF k.svc /\ k.stub THEN FALSE ELSE @,
              !.regD = IF k.svc /\ k.stub THEN FALSE ELSE @,
              !.svc = FALSE,
              !.svcRefs = IF k.svc THEN Floor2(@ - 1) ELSE @,
              !.stub = FALSE,
              !.stubRefs = IF k.stub THEN Floor2(@ - 1) ELSE @,
              !.com = Floor2(@ - 1),
              !.cleanups = Cap2(@ + 1)]

SinkDelete(k) == [k EXCEPT !.alive = FALSE, !.deletes = Cap2(@ + 1)]

\* FFIProcessEventSink::Initialize() of ffi_build: the sink it leaves behind
\* for an outcome ("ok" or the step that failed), flag being g_com_initialized
\* as Initialize() found it.  CoInitializeEx is called only when the flag was
\* false (and only then can fail); every later failure calls CoUninitialize,
\* directly or through Cleanup().  A failing CoInitializeSecurity only sets
\* g_last_error and is not an outcome of its own.
SinkInitialize(k, flag, outcome) ==
    LET k1 == IF flag THEN k ELSE CoInitializeEx(k)
        k2 == Connected(k1)
        k3 == Stubbed(k2)
    IN  CASE outcome = "com" -> k
          [] outcome = "locator" -> CoUninitialize(k1)
          [] outcome = "connect" -> CoUninitialize(k1)
          [] outcome = "blanket" -> CoUninitialize(SvcReleased(k2))
          [] outcome = "apartment" -> CoUninitialize(SvcReleased(k2))
          [] outcome = "creation" -> SinkCleanup(k3)
          [] outcome = "deletion" -> SinkCleanup([k3 EXCEPT !.regC = TRUE])
          [] outcome = "ok" -> [k3 EXCEPT !.regC = TRUE, !.regD = TRUE]

\* g_com_initialized after Initialize(): exchange(true), and false again when
\* CoInitializeEx failed.
ComFlagAfter(outcome) == outcome # "com"

InitializeError(outcome) ==
    CASE outcome = "com" -> ERR_COM
      [] outcome = "security" -> ERR_SECURITY
      [] outcome = "locator" -> ERR_LOCATOR
      [] outcome = "connect" -> ERR_CONNECT
      [] outcome = "blanket" -> ERR_BLANKET
      [] outcome = "apartment" -> ERR_APARTMENT
      [] outcome = "creation" -> ERR_CREATION
      [] outcome = "deletion" -> ERR_DELETION

\* ------------------------------------------- monitor_thread_function
\* g_event_sink = new FFIProcessEventSink();
BgNew(t) ==
    /\ threads[t] = "new"
    /\ g_event_sink' = t
    /\ sinks' = [sinks EXCEPT ![t] = [NoSink EXCEPT !.alive = TRUE]]
    /\ threads' = [threads EXCEPT ![t] = "init"]
    /\ UNCHANGED <<g_last_error, g_monitoring, g_monitor_thread,
                   g_event_queue, g_com_initialized, g_event_available,
                   g_event_callback, g_callback_user_data,
                   cleanup_in_progress, hcloses, nhandles, signaled, pc, loc,
                   arg, ret, dlv, nrecs, hist>>

\* g_event_sink->Initialize() returns true: on to the polling loop.
BgInitializeOk(t) ==
    /\ threads[t] = "init"
    /\ g_event_sink # 0
    /\ sinks' = [sinks EXCEPT ![g_event_sink] =
                    SinkInitialize(@, g_com_initialized, "ok")]
    /\ g_com_initialized' = ComFlagAfter("ok")
    /\ threads' = [threads EXCEPT ![t] = "loop"]
    /\ UNCHANGED <<g_last_error, g_monitoring, g_monitor_thread,
                   g_event_queue, g_event_available, g_event_callback,
                   g_callback_user_data, g_event_sink, cleanup_in_progress,
                   hcloses, nhandles, signaled, pc, loc, arg, ret, dlv,
                   nrecs, hist>>

\* A thread that gives up after a failed Initialize() and leaves the running
\* flag set.
BgInitializeFailsFlagKept(t, steps) ==
    /\ threads[t] = "init"
    /\ g_event_sink # 0
    /\ \E outcome \in steps :
          /\ outcome = "com" => ~g_com_initialized
          /\ sinks' = [sinks EXCEPT ![g_event_sink] =
                          SinkDelete(SinkInitialize(@, g_com_initialized,
                                                    outcome))]
          /\ g_last_error' = InitializeError(outcome)
          /\ g_com_initialized' = ComFlagAfter(outcome)
    /\ g_event_sink' = 0
    /\ threads' = [threads EXCEPT ![t] = "done"]
    /\ UNCHANGED <<g_monitoring, g_monitor_thread, g_event_queue,
                   g_event_available, g_event_callback, g_callback_user_data,
                   cleanup_in_progress, hcloses, nhandles, signaled, pc, loc,
                   arg, ret, dlv, nrecs, hist>>

\* g_event_sink->Initialize() returns false at one of the steps given:
\* delete g_event_sink; g_event_sink = nullptr; g_monitoring = false; return;
BgInitializeFails(t, steps) ==
    /\ threads[t] = "init"
    /\ g_event_sink # 0
    /\ \E outcome \in steps :
          /\ outcome = "com" => ~g_com_initialized
          /\ sinks' = [sinks EXCEPT ![g_event_sink] =
                          SinkDelete(SinkInitialize(@, g_com_initialized,
                                                    outcome))]
          /\ g_last_error' = InitializeError(outcome)
          /\ g_com_initialized' = ComFlagAfter(outcome)
    /\ g_event_sink' = 0
    /\ g_monitoring' = FALSE
    /\ threads' = [threads EXCEPT ![t] = "done"]
    /\ UNCHANGED <<g_monitor_thread, g_event_queue, g_event_available,
                   g_event_callback, g_callback_user_data,
                   cleanup_in_progress, hcloses, nhandles, signaled, pc, loc,
                   arg, ret, dlv, nrecs, hist>>

\* The same, failing at the server connection or at the second registration.
BgInitializeFail(t) == BgInitializeFails(t, InitFailures)

\* g_event_sink->Initialize() through the pointer cleanup_process_monitor has
\* set to nullptr in the meantime: a null dereference ends the thread.
BgInitializeNull(t) ==
    /\ threads[t] = "init"
    /\ g_event_sink = 0
    /\ threads' = [threads EXCEPT ![t] = "done"]
    /\ UNCHANGED <<globals, sinks, pc, loc, arg, ret, dlv, nrecs, hist>>

\* while (g_monitoring) Sleep(50); then g_event_sink = nullptr; (no Cleanup())
BgLoopExit(t) ==
    /\ threads[t] = "loop"
    /\ ~g_monitoring
    /\ g_event_sink' = 0
    /\ threads' = [threads EXCEPT ![t] = "done"]
    /\ UNCHANGED <<g_last_error, g_monitoring, g_monitor_thread,
                   g_event_queue, g_com_initialized, g_event_available,
                   g_event_callback, g_callback_user_data,
                   cleanup_in_progress, hcloses, nhandles, signaled, sinks,
                   pc, loc, arg, ret, dlv, nrecs, hist>>

\* ------------------------------------------------- controller: start
Return(op, val) == [op |-> op, val |-> val, recs |-> <<>>]

\* A start_monitoring_with_callback that resets the callback before it tests
\* the running flag.
StartRejectedEarlyCallback(op) ==
    /\ pc["main"] = "idle"
    /\ g_monitoring
    /\ g_last_error' = ERR_RUNNING
    /\ g_event_callback' =
          IF op = "start_monitoring_with_callback" THEN 0 ELSE g_event_callback
    /\ g_callback_user_data' =
          IF op = "start_monitoring_with_callback" THEN 0
          ELSE g_callback_user_data
    /\ ret' = Return(op, FALSE)
    /\ UNCHANGED <<g_monitoring, g_monitor_thread, g_event_queue,
                   g_com_initialized, g_event_available, g_event_sink,
                   cleanup_in_progress, hcloses, nhandles, signaled, threads,
                   sinks, pc, loc, arg, dlv, nrecs, hist>>

\* if (g_monitoring) { g_last_error = "...already running"; return false; }
StartRejected(op) ==
    /\ pc["main"] = "idle"
    /\ g_monitoring
    /\ g_last_error' = ERR_RUNNING
    /\ ret' = Return(op, FALSE)
    /\ UNCHANGED <<g_monitoring, g_monitor_thread, g_event_queue,
                   g_com_initialized, g_event_available, g_event_callback,
                   g_callback_user_data, g_event_sink, cleanup_in_progress,
                   hcloses, nhandles, signaled, threads, sinks, pc, loc, arg,
                   dlv, nrecs, hist>>

\* What the run has seen once a start has reset the queue.
StartedHist(q) == [hist EXCEPT !.life = "none", !.quiet = q]

\* A start that leaves the queue as it finds it.
QueueKeptByStart(q) == q

\* { lock; while (!g_event_queue.empty()) g_event_queue.pop(); }
QueueAfterStart(q) == <<>>

\* start_monitoring, g_event_available == nullptr and CreateEvent fails.
StartMonitoringNoEvent ==
    /\ pc["main"] = "idle"
    /\ ~g_monitoring
    /\ g_event_available = 0
    /\ g_last_error' = ERR_EVENT
    /\ ret' = Return("start_monitoring", FALSE)
    /\ hist' = StartedHist("no")
    /\ UNCHANGED <<g_monitoring, g_monitor_thread, g_event_queue,
                   g_com_initialized, g_event_available, g_event_callback,
                   g_callback_user_data, g_event_sink, cleanup_in_progress,
                   hcloses, nhandles, signaled, threads, sinks, pc, loc, arg,
                   dlv, nrecs>>

\* start_monitoring up to g_monitoring = true: the wake signal is created if
\* there is none, the queue is emptied, the flag is set.
StartMonitoringBegin ==
    /\ pc["main"] = "idle"
    /\ ~g_monitoring
    /\ IF g_event_available = 0
         THEN /\ nhandles < MaxHandles
              /\ nhandles' = nhandles + 1
              /\ g_event_available' = nhandles + 1
              /\ signaled' = FALSE
         ELSE UNCHANGED <<nhandles, g_event_available, signaled>>
    /\ g_event_queue' = QueueAfterStart(g_event_queue)
    /\ g_monitoring' = TRUE
    /\ pc' = [pc EXCEPT !["main"] = "sm_join"]
    /\ hist' = StartedHist("starting")
    /\ UNCHANGED <<g_last_error, g_monitor_thread, g_com_initialized,
                   g_event_callback, g_callback_user_data, g_event_sink,
                   cleanup_in_progress, hcloses, threads, sinks, loc, arg,
                   ret, dlv, nrecs>>

\* start_monitoring_with_callback: g_event_callback = callback;
StartCallbackBegin(p) ==
    /\ pc["main"] = "idle"
    /\ ~g_monitoring
    /\ g_event_callback' = p
    /\ arg' = p
    /\ pc' = [pc EXCEPT !["main"] = "sc_ud"]
    /\ hist' = StartedHist("no")
    /\ UNCHANGED <<g_last_error, g_monitoring, g_monitor_thread,
                   g_event_queue, g_com_initialized, g_event_available,
                   g_callback_user_data, g_event_sink, cleanup_in_progress,
                   hcloses, nhandles, signaled, threads, sinks, loc, ret, dlv,
                   nrecs>>

\* g_callback_user_data = user_data; the queue is emptied; g_monitoring = true;
\* (no wake signal is created on this path)
StartCallbackFlag ==
    /\ pc["main"] = "sc_ud"
    /\ g_callback_user_data' = arg
    /\ g_event_queue' = QueueAfterStart(g_event_queue)
    /\ g_monitoring' = TRUE
    /\ pc' = [pc EXCEPT !["main"] = "sc_join"]
    /\ hist' = StartedHist("no")
    /\ UNCHANGED <<g_last_error, g_monitor_thread, g_com_initialized,
                   g_event_available, g_event_callback, g_event_sink,
                   cleanup_in_progress, hcloses, nhandles, signaled, threads,
                   sinks, loc, arg, ret, dlv, nrecs>>

SpawnPc(p) == IF p = "sm_join" THEN "sm_spawn" ELSE "sc_spawn"

\* if (g_monitor_thread.joinable()) g_monitor_thread.join();
\* join() returns once the previous thread has ended.
StartJoin ==
    /\ pc["main"] \in {"sm_join", "sc_join"}
    /\ g_monitor_thread # 0 => threads[g_monitor_thread] = "done"
    /\ g_monitor_thread' = 0
    /\ pc' = [pc EXCEPT !["main"] = SpawnPc(@)]
    /\ UNCHANGED <<g_last_error, g_monitoring, g_event_queue,
                   g_com_initialized, g_event_available, g_event_callback,
                   g_callback_user_data, g_event_sink, cleanup_in_progress,
                   hcloses, nhandles, signaled, threads, sinks, loc, arg, ret,
                   dlv, nrecs, hist>>

StartOp(p) == IF p = "sm_spawn" THEN "start_monitoring"
              ELSE "start_monitoring_with_callback"

Unborn == {t \in ThreadIds : threads[t] = "unborn"}

\* g_monitor_thread = std::thread(monitor_thread_function); return true;
StartSpawn ==
    /\ pc["main"] \in {"sm_spawn", "sc_spawn"}
    /\ Unborn # {}
    /\ LET t == CHOOSE u \in Unborn : \A v \in Unborn : u <= v IN
          /\ threads' = [threads EXCEPT ![t] = "new"]
          /\ g_monitor_thread' = t
          /\ hist' = [hist EXCEPT
                        !.life = "started",
                        !.quiet = IF @ = "starting" THEN "yes" ELSE "no",
                        !.pull = @ \/ pc["main"] = "sm_spawn"]
    /\ ret' = Return(StartOp(pc["main"]), TRUE)
    /\ pc' = [pc EXCEPT !["main"] = "idle"]
    /\ arg' = 0
    /\ UNCHANGED <<g_last_error, g_monitoring, g_event_queue,
                   g_com_initialized, g_event_available, g_event_callback,
                   g_callback_user_data, g_event_sink, cleanup_in_progress,
                   hcloses, nhandles, signaled, sinks, loc, dlv, nrecs>>

\* catch (...) { g_monitoring = false; [callback and user data = nullptr;]
\*   g_last_error = "Failed to start monitoring thread"; return false; }
StartSpawnFails ==
    /\ pc["main"] \in {"sm_spawn", "sc_spawn"}
    /\ g_monitoring' = FALSE
    /\ g_event_callback' =
          IF pc["main"] = "sc_spawn" THEN 0 ELSE g_event_callback
    /\ g_callback_user_data' =
          IF pc["main"] = "sc_spawn" THEN 0 ELSE g_callback_user_data
    /\ g_last_error' = ERR_THREAD
    /\ ret' = Return(StartOp(pc["main"]), FALSE)
    /\ pc' = [pc EXCEPT !["main"] = "idle"]
    /\ arg' = 0
    /\ hist' = [hist EXCEPT !.quiet = "no"]
    /\ UNCHANGED <<g_monitor_thread, g_event_queue, g_com_initialized,
                   g_event_available, g_event_sink, cleanup_in_progress,
                   hcloses, nhandles, signaled, threads, sinks, loc, dlv,
                   nrecs>>

\* -------------------------------------------------- controller: stop
\* A stop_monitoring that also empties the queue.
StopBeginClearsQueue ==
    /\ pc["main"] = "idle"
    /\ g_monitoring' = FALSE
    /\ g_event_callback' = 0
    /\ g_event_queue' = <<>>
    /\ pc' = [pc EXCEPT !["main"] = "st_ud"]
    /\ UNCHANGED <<g_last_error, g_monitor_thread, g_com_initialized,
                   g_event_available, g_callback_user_data, g_event_sink,
                   cleanup_in_progress, hcloses, nhandles, signaled, threads,
                   sinks, loc, arg, ret, dlv, nrecs, hist>>

\* A stop_monitoring that clears the callback and leaves the running flag set.
StopBeginKeepsFlag ==
    /\ pc["main"] = "idle"
    /\ g_event_callback' = 0
    /\ pc' = [pc EXCEPT !["main"] = "st_ud"]
    /\ UNCHANGED <<g_last_error, g_monitoring, g_monitor_thread,
                   g_event_queue, g_com_initialized, g_event_available,
                   g_callback_user_data, g_event_sink, cleanup_in_progress,
                   hcloses, nhandles, signaled, threads, sinks, loc, arg, ret,
                   dlv, nrecs, hist>>

\* g_monitoring = false; g_event_callback = nullptr;
StopBegin ==
    /\ pc["main"] = "idle"
    /\ g_monitoring' = FALSE
    /\ g_event_callback' = 0
    /\ pc' = [pc EXCEPT !["main"] = "st_ud"]
    /\ UNCHANGED <<g_last_error, g_monitor_thread, g_event_queue,
                   g_com_initialized, g_event_available, g_callback_user_data,
                   g_event_sink, cleanup_in_progress, hcloses, nhandles,
                   signaled, threads, sinks, loc, arg, ret, dlv, nrecs, hist>>

\* g_callback_user_data = nullptr; return true;
StopEnd ==
    /\ pc["main"] = "st_ud"
    /\ g_callback_user_data' = 0
    /\ ret' = Return("stop_monitoring", TRUE)
    /\ pc' = [pc EXCEPT !["main"] = "idle"]
    /\ hist' = [hist EXCEPT
                  !.life = IF @ \in {"started", "stopped"} THEN "stopped"
                           ELSE "none"]
    /\ UNCHANGED <<g_last_error, g_monitoring, g_monitor_thread,
                   g_event_queue, g_com_initialized, g_event_available,
                   g_event_callback, g_event_sink, cleanup_in_progress,
                   hcloses, nhandles, signaled, threads, sinks, loc, arg, dlv,
                   nrecs>>

\* ------------------------------------- cleanup_process_monitor (caller c)
\* A guard that lets every caller through.
NoGuard(flag) == [old |-> FALSE, new |-> TRUE]

\* cleanup_in_progress.exchange(true): the value read and the value left.
GuardExchange(flag) == [old |-> flag, new |-> TRUE]

\* What the run has seen once cleanup_process_monitor has returned to c.
AfterCleanup(h, c) ==
    IF c = "main"
      THEN [h EXCEPT !.life = IF h.life = "stopped" THEN "cleaned" ELSE "none"]
      ELSE h

CleanupRet(c) ==
    IF c = "main" THEN Return("cleanup_process_monitor", TRUE) ELSE ret

\* The guard is already set: return at once.
CleanupSkipped(c) ==
    /\ pc[c] = "idle"
    /\ GuardExchange(cleanup_in_progress).old
    /\ cleanup_in_progress' = GuardExchange(cleanup_in_progress).new
    /\ ret' = CleanupRet(c)
    /\ hist' = AfterCleanup(hist, c)
    /\ UNCHANGED <<g_last_error, g_monitoring, g_monitor_thread,
                   g_event_queue, g_com_initialized, g_event_available,
                   g_event_callback, g_callback_user_data, g_event_sink,
                   hcloses, nhandles, signaled, threads, sinks, pc, loc, arg,
                   dlv, nrecs>>

\* The first caller: sets the guard; if (g_monitoring) g_monitoring = false;
CleanupBegin(c) ==
    /\ pc[c] = "idle"
    /\ ~GuardExchange(cleanup_in_progress).old
    /\ cleanup_in_progress' = GuardExchange(cleanup_in_progress).new
    /\ g_monitoring' = FALSE
    /\ pc' = [pc EXCEPT ![c] = "cu_join"]
    /\ hist' = [hist EXCEPT !.teardown = @ \cup {c}, !.quiet = "no"]
    /\ UNCHANGED <<g_last_error, g_monitor_thread, g_event_queue,
                   g_com_initialized, g_event_available, g_event_callback,
                   g_callback_user_data, g_event_sink, hcloses, nhandles,
                   signaled, threads, sinks, loc, arg, ret, dlv, nrecs>>

\* if (joinable()) { Sleep(100); while (joinable() && elapsed < 1000) Sleep(50);
\*                   if (joinable()) detach(); }
\* joinable() stays true until join() or detach() is called, whether or not the
\* thread has ended, so the bounded wait always ends in detach().
CleanupDetach(c) ==
    /\ pc[c] = "cu_join"
    /\ g_monitor_thread' = 0
    /\ pc' = [pc EXCEPT ![c] = "cu_sink"]
    /\ UNCHANGED <<g_last_error, g_monitoring, g_event_queue,
                   g_com_initialized, g_event_available, g_event_callback,
                   g_callback_user_data, g_event_sink, cleanup_in_progress,
                   hcloses, nhandles, signaled, threads, sinks, loc, arg, ret,
                   dlv, nrecs, hist>>

\* if (g_event_sink) ...
CleanupSinkExamine(c) ==
    /\ pc[c] = "cu_sink"
    /\ pc' = [pc EXCEPT ![c] = IF g_event_sink = 0 THEN "cu_queue"
                                ELSE "cu_sinkdo"]
    /\ loc' = [loc EXCEPT ![c] = g_event_sink]
    /\ UNCHANGED <<globals, threads, sinks, arg, ret, dlv, nrecs, hist>>

\* g_event_sink->Cleanup(); delete g_event_sink; g_event_sink = nullptr;
\* The pointer is read again or kept from the test above, as the build chose;
\* read again after the background thread reset it, it is a null dereference.
CleanupSinkRelease(c) ==
    /\ pc[c] = "cu_sinkdo"
    /\ \E s \in {loc[c], g_event_sink} :
          IF s = 0
            THEN UNCHANGED sinks
            ELSE sinks' = [sinks EXCEPT ![s] = SinkDelete(SinkCleanup(@))]
    /\ g_event_sink' = 0
    /\ pc' = [pc EXCEPT ![c] = "cu_queue"]
    /\ loc' = [loc EXCEPT ![c] = 0]
    /\ UNCHANGED <<g_last_error, g_monitoring, g_monitor_thread,
                   g_event_queue, g_com_initialized, g_event_available,
                   g_event_callback, g_callback_user_data,
                   cleanup_in_progress, hcloses, nhandles, signaled, threads,
                   arg, ret, dlv, nrecs, hist>>

\* { lock; while (!g_event_queue.empty()) g_event_queue.pop(); }
CleanupQueue(c) ==
    /\ pc[c] = "cu_queue"
    /\ g_event_queue' = <<>>
    /\ pc' = [pc EXCEPT ![c] = "cu_handle"]
    /\ UNCHANGED <<g_last_error, g_monitoring, g_monitor_thread,
                   g_com_initialized, g_event_available, g_event_callback,
                   g_callback_user_data, g_event_sink, cleanup_in_progress,
                   hcloses, nhandles, signaled, threads, sinks, loc, arg, ret,
                   dlv, nrecs, hist>>

\* if (g_event_available != nullptr) ... with a handle to close.
CleanupHandleExamine(c) ==
    /\ pc[c] = "cu_handle"
    /\ g_event_available # 0
    /\ loc' = [loc EXCEPT ![c] = g_event_available]
    /\ pc' = [pc EXCEPT ![c] = "cu_close"]
    /\ UNCHANGED <<globals, threads, sinks, arg, ret, dlv, nrecs, hist>>

\* No handle: g_com_initialized.exchange(false); g_last_error.clear(); return.
CleanupNoHandle(c) ==
    /\ pc[c] = "cu_handle"
    /\ g_event_available = 0
    /\ g_com_initialized' = FALSE
    /\ g_last_error' = ERR_NONE
    /\ pc' = [pc EXCEPT ![c] = "idle"]
    /\ ret' = CleanupRet(c)
    /\ hist' = AfterCleanup(hist, c)
    /\ UNCHANGED <<g_monitoring, g_monitor_thread, g_event_queue,
                   g_event_available, g_event_callback, g_callback_user_data,
                   g_event_sink, cleanup_in_progress, hcloses, nhandles,
                   signaled, threads, sinks, loc, arg, dlv, nrecs>>

\* CloseHandle(g_event_available); g_event_available = nullptr;
\* g_com_initialized.exchange(false); g_last_error.clear(); return.
CleanupClose(c) ==
    /\ pc[c] = "cu_close"
    /\ hcloses' = [hcloses EXCEPT ![loc[c]] = Cap2(@ + 1)]
    /\ g_event_available' = 0
    /\ g_com_initialized' = FALSE
    /\ g_last_error' = ERR_NONE
    /\ pc' = [pc EXCEPT ![c] = "idle"]
    /\ loc' = [loc EXCEPT ![c] = 0]
    /\ ret' = CleanupRet(c)
    /\ hist' = AfterCleanup([hist EXCEPT !.pull = FALSE], c)
    /\ UNCHANGED <<g_monitoring, g_monitor_thread, g_event_queue,
                   g_event_callback, g_callback_user_data, g_event_sink,
                   cleanup_in_progress, nhandles, signaled, threads, sinks,
                   arg, dlv, nrecs>>

\* ------------------------------------------------- lock-free observers
is_monitoring == g_monitoring
get_pending_event_count == Len(g_event_queue)
get_last_error == g_last_error

\* initialize_process_monitor(): g_last_error.clear(); return true;
InitializeProcessMonitor ==
    /\ pc["main"] = "idle"
    /\ g_last_error' = ERR_NONE
    /\ ret' = Return("initialize_process_monitor", TRUE)
    /\ UNCHANGED <<g_monitoring, g_monitor_thread, g_event_queue,
                   g_com_initialized, g_event_available, g_event_callback,
                   g_callback_user_data, g_event_sink, cleanup_in_progress,
                   hcloses, nhandles, signaled, threads, sinks, pc, loc, arg,
                   dlv, nrecs, hist>>

\* -------------------------------------------------- wait_for_events
\* if (g_event_available == nullptr)
WaitSeesNull(h) == h = 0

\* A wait that reports a timeout when there is no signal to wait on.
WaitNotInitializedTimesOut(t) ==
    /\ pc["main"] = "idle"
    /\ WaitSeesNull(g_event_available)
    /\ ret' = Return("wait_for_events", 0)
    /\ UNCHANGED <<globals, threads, sinks, pc, loc, arg, dlv, nrecs, hist>>

\* return -1; // Not initialized
WaitNotInitialized(t) ==
    /\ pc["main"] = "idle"
    /\ WaitSeesNull(g_event_available)
    /\ ret' = Return("wait_for_events", -1)
    /\ UNCHANGED <<globals, threads, sinks, pc, loc, arg, dlv, nrecs, hist>>

\* DWORD result = WaitForSingleObject(g_event_available, timeout_ms): entered.
WaitBegin(t) ==
    /\ pc["main"] = "idle"
    /\ ~WaitSeesNull(g_event_available)
    /\ loc' = [loc EXCEPT !["main"] = g_event_available]
    /\ arg' = t
    /\ pc' = [pc EXCEPT !["main"] = "w_wait"]
    /\ UNCHANGED <<globals, threads, sinks, ret, dlv, nrecs, hist>>

\* WAIT_OBJECT_0: the auto-reset event was set and is reset by the wait.
WaitSignaled ==
    /\ pc["main"] = "w_wait"
    /\ HandleOpen(loc["main"])
    /\ signaled
    /\ signaled' = FALSE
    /\ pc' = [pc EXCEPT !["main"] = "w_size"]
    /\ UNCHANGED <<g_last_error, g_monitoring, g_monitor_thread,
                   g_event_queue, g_com_initialized, g_event_available,
                   g_event_callback, g_callback_user_data, g_event_sink,
                   cleanup_in_progress, hcloses, nhandles, threads, sinks,
                   loc, arg, ret, dlv, nrecs, hist>>

\* { lock; return (int)g_event_queue.size(); }
WaitSize ==
    /\ pc["main"] = "w_size"
    /\ ret' = Return("wait_for_events", Len(g_event_queue))
    /\ pc' = [pc EXCEPT !["main"] = "idle"]
    /\ loc' = [loc EXCEPT !["main"] = 0]
    /\ arg' = 0
    /\ UNCHANGED <<globals, threads, sinks, dlv, nrecs, hist>>

\* WAIT_TIMEOUT: return 0; a finite timeout ran out with the event not set.
WaitTimeout ==
    /\ pc["main"] = "w_wait"
    /\ HandleOpen(loc["main"])
    /\ ~signaled
    /\ arg # INFINITE
    /\ ret' = Return("wait_for_events", 0)
    /\ pc' = [pc EXCEPT !["main"] = "idle"]
    /\ loc' = [loc EXCEPT !["main"] = 0]
    /\ arg' = 0
    /\ UNCHANGED <<globals, threads, sinks, dlv, nrecs, hist>>

\* WAIT_FAILED: the handle was closed by cleanup_process_monitor on another
\* thread after the null test; return -1.
WaitFailed ==
    /\ pc["main"] = "w_wait"
    /\ ~HandleOpen(loc["main"])
    /\ ret' = Return("wait_for_events", -1)
    /\ pc' = [pc EXCEPT !["main"] = "idle"]
    /\ loc' = [loc EXCEPT !["main"] = 0]
    /\ arg' = 0
    /\ UNCHANGED <<globals, threads, sinks, dlv, nrecs, hist>>

\* ------------------------------------ get_next_event, get_all_events
Take(q, k) == SubSeq(q, 1, k)
Drop(q, k) == SubSeq(q, k + 1, Len(q))

\* get_next_event(&event_data)
GetNextEvent ==
    /\ pc["main"] = "idle"
    /\ IF g_event_queue = <<>>
         THEN /\ ret' = Return("get_next_event", FALSE)
              /\ UNCHANGED g_event_queue
         ELSE /\ ret' = [Return("get_next_event", TRUE) EXCEPT
                            !.recs = <<Head(g_event_queue)>>]
              /\ g_event_queue' = Tail(g_event_queue)
    /\ UNCHANGED <<g_last_error, g_monitoring, g_monitor_thread,
                   g_com_initialized, g_event_available, g_event_callback,
                   g_callback_user_data, g_event_sink, cleanup_in_progress,
                   hcloses, nhandles, signaled, threads, sinks, pc, loc, arg,
                   dlv, nrecs, hist>>

\* A loop that copies the front record and leaves it in the queue.
RECURSIVE DrainLoopNoPop(_, _, _)
DrainLoopNoPop(q, out, max) ==
    IF q # <<>> /\ Len(out) < max
      THEN DrainLoopNoPop(q, Append(out, Head(q)), max)
      ELSE [queue |-> q, out |-> out, count |-> Len(out)]

\* while (!g_event_queue.empty() && count < max_events) {
\*     events_array[count] = g_event_queue.front(); g_event_queue.pop();
\*     count++; }
RECURSIVE DrainLoop(_, _, _)
DrainLoop(q, out, max) ==
    IF q # <<>> /\ Len(out) < max
      THEN DrainLoop(Tail(q), Append(out, Head(q)), max)
      ELSE [queue |-> q, out |-> out, count |-> Len(out)]

\* get_all_events(events_array, max_events) with a buffer:
\* if (max_events <= 0) return 0; otherwise the loop under the queue lock.
GetAllEvents(max) ==
    /\ pc["main"] = "idle"
    /\ LET r == IF max <= 0
                  THEN [queue |-> g_event_queue, out |-> <<>>, count |-> 0]
                  ELSE DrainLoop(g_event_queue, <<>>, max)
       IN  /\ g_event_queue' = r.queue
           /\ ret' = [Return("get_all_events", r.count) EXCEPT
                        !.recs = r.out]
    /\ UNCHANGED <<g_last_error, g_monitoring, g_monitor_thread,
                   g_com_initialized, g_event_available, g_event_callback,
                   g_callback_user_data, g_event_sink, cleanup_in_progress,
                   hcloses, nhandles, signaled, threads, sinks, pc, loc, arg,
                   dlv, nrecs, hist>>

\* --------------------------------------- FFIProcessEventSink::Indicate
ProcessName == [id |-> "notepad.exe", len |-> 11]

\* Raw records the service may deliver: a process "notepad.exe" with id 4321
\* starting and stopping, and processes whose UTF-8 names take 511, 512 and
\* 600 bytes.  A name is the first len bytes of the string id.
NameLengths == {NAME_BUF - 1, NAME_BUF, 600}

RawRecords ==
    {[cls |-> c, name |-> ProcessName, pid |-> 4321] : c \in EventClasses}
    \cup {[cls |-> CreationClass, name |-> [id |-> "long.exe", len |-> l],
           pid |-> l] : l \in NameLengths}

Registered(s, cls) ==
    IF cls = CreationClass THEN sinks[s].regC ELSE sinks[s].regD

\* The service calls Indicate(n, records) on a sink that holds a registration
\* for the records' class.
IndicateBegin(s, cls, n) ==
    /\ dlv.pc = "idle"
    /\ Registered(s, cls)
    /\ dlv' = [pc |-> "enq", cls |-> cls, n |-> n, i |-> 1, cb |-> 0, h |-> 0,
               threw |-> FALSE]
    /\ UNCHANGED <<globals, threads, sinks, pc, loc, arg, ret, nrecs, hist>>

\* What the run has seen once a record has been enqueued.
EnqueuedHist ==
    [hist EXCEPT !.quiet = "no",
                 !.life = IF @ \in {"stopped", "cleaned"} THEN "none" ELSE @]

\* event_data is built from the raw record; { lock; push; trim to 1000 }
IndicateEnqueueOf(raw) ==
    /\ dlv.pc = "enq"
    /\ raw.cls = dlv.cls
    /\ g_event_queue' = Enqueue(g_event_queue, MakeEvent(raw))
    /\ nrecs' = nrecs + 1
    /\ dlv' = [dlv EXCEPT !.pc = "chk"]
    /\ hist' = EnqueuedHist
    /\ UNCHANGED <<g_last_error, g_monitoring, g_monitor_thread,
                   g_com_initialized, g_event_available, g_event_callback,
                   g_callback_user_data, g_event_sink, cleanup_in_progress,
                   hcloses, nhandles, signaled, threads, sinks, pc, loc, arg,
                   ret>>

\* The same for a record of "notepad.exe" whose process id is its number in
\* the order of arrival.
IndicateEnqueue ==
    IndicateEnqueueOf([cls |-> dlv.cls, name |-> ProcessName,
                       pid |-> nrecs + 1])

\* if (g_event_available != nullptr)
IndicateCheckSignal ==
    /\ dlv.pc = "chk"
    /\ dlv' = [dlv EXCEPT !.pc = IF g_event_available = 0 THEN "cbchk"
                                ELSE "set",
                          !.h = g_event_available]
    /\ UNCHANGED <<globals, threads, sinks, pc, loc, arg, ret, nrecs, hist>>

\* SetEvent(g_event_available): on a handle closed in the meantime it fails.
IndicateSetEvent ==
    /\ dlv.pc = "set"
    /\ signaled' = (HandleOpen(dlv.h) \/ signaled)
    /\ UNCHANGED hist
    /\ dlv' = [dlv EXCEPT !.pc = "cbchk", !.h = 0]
    /\ UNCHANGED <<g_last_error, g_monitoring, g_monitor_thread,
                   g_event_queue, g_com_initialized, g_event_available,
                   g_event_callback, g_callback_user_data, g_event_sink,
                   cleanup_in_progress, hcloses, nhandles, threads, sinks, pc,
                   loc, arg, ret, nrecs>>

\* The record's resources are released (VariantClear, Release) and the loop
\* goes on to the next record, or Indicate returns WBEM_S_NO_ERROR.
NextRecord(d) ==
    IF d.i < d.n THEN [d EXCEPT !.pc = "enq", !.i = @ + 1, !.cb = 0, !.h = 0]
                 ELSE IdleDelivery

\* if (g_event_callback != nullptr): no callback registered.
IndicateNoCallback ==
    /\ dlv.pc = "cbchk"
    /\ g_event_callback = 0
    /\ dlv' = NextRecord(dlv)
    /\ UNCHANGED <<globals, threads, sinks, pc, loc, arg, ret, nrecs, hist>>

\* if (g_event_callback != nullptr): a callback is registered.
IndicateSeesCallback ==
    /\ dlv.pc = "cbchk"
    /\ g_event_callback # 0
    /\ dlv' = [dlv EXCEPT !.pc = "call", !.cb = g_event_callback]
    /\ UNCHANGED <<globals, threads, sinks, pc, loc, arg, ret, nrecs, hist>>

\* An exception has left Indicate and unwinds the service's calling thread.
Unwound == [IdleDelivery EXCEPT !.pc = "unwound"]

\* The call went through a null pointer: an access violation in the host.
Crashed == [IdleDelivery EXCEPT !.pc = "crashed"]

\* A call outside any try block: a throw unwinds out of Indicate.
CallbackUncaught(d, outcome) ==
    IF outcome = "throws" THEN Unwound ELSE NextRecord(d)

\* try { g_event_callback(&event_data, g_callback_user_data); } catch (...) {}
\* where Indicate is after the callback returned or threw.
AfterCallback(d, outcome) ==
    NextRecord([d EXCEPT !.threw = @ \/ outcome = "throws"])

\* g_event_callback(&event_data, g_callback_user_data): the function pointer
\* and the user data the call may be made with.  Both globals are plain
\* pointers read with no lock; the function pointer is the one the test read
\* or one read again, the user data is read at the call.
CallArgs ==
    {[f |-> f, ud |-> g_callback_user_data] : f \in {dlv.cb, g_event_callback}}

\* The call itself, the callback returning or throwing.  The pointer called is
\* the one tested or one read again, as the build chose.
IndicateCall(outcome) ==
    /\ dlv.pc = "call"
    /\ \E f \in {dlv.cb, g_event_callback} : f # 0
    /\ dlv' = AfterCallback(dlv, outcome)
    /\ UNCHANGED <<globals, threads, sinks, pc, loc, arg, ret, nrecs, hist>>

\* The pointer is read again after stop_monitoring or a failed start has
\* cleared it, and the call goes through a null pointer.
IndicateCallNull ==
    /\ dlv.pc = "call"
    /\ g_event_callback = 0
    /\ dlv' = Crashed
    /\ UNCHANGED <<globals, threads, sinks, pc, loc, arg, ret, nrecs, hist>>

\* ============ the callback-only variant (src/windows/process_monitor_api.cpp)
\* Its globals are held in the variables of the same names; g_callback and
\* g_user_data are held in g_event_callback and g_callback_user_data.

\* Every step at which this variant's Initialize() can return false.
CbInitSteps == InitSteps \cup {"security"}

\* FFIProcessEventSink::Initialize() of the callback-only variant: CoInitializeEx
\* is called every time; a failing CoInitializeSecurity is fatal.
CbInitialize(k, outcome) ==
    LET k1 == CoInitializeEx(k)
        k2 == Connected(k1)
        k3 == Stubbed(k2)
    IN  CASE outcome = "com" -> k
          [] outcome = "security" -> CoUninitialize(k1)
          [] outcome = "locator" -> CoUninitialize(k1)
          [] outcome = "connect" -> CoUninitialize(k1)
          [] outcome = "blanket" -> CoUninitialize(SvcReleased(k2))
          [] outcome = "apartment" -> CoUninitialize(SvcReleased(k2))
          [] outcome = "creation" -> SinkCleanup(k3)
          [] outcome = "deletion" -> SinkCleanup([k3 EXCEPT !.regC = TRUE])
          [] outcome = "ok" -> [k3 EXCEPT !.regC = TRUE, !.regD = TRUE]

\* FFIProcessEventSink::Cleanup() of the callback-only variant.
CbCleanup(k) == SinkCleanup(k)

\* delete g_event_sink: virtual ~FFIProcessEventSink() { Cleanup(); }
CbDelete(k) == SinkDelete(CbCleanup(k))

\* static std::mutex g_callback_mutex: Indicate holds it from its first line to
\* its return, that is while it is in its loop over the records; the
\* controller holds it only inside one step of start_monitoring or
\* stop_monitoring, which waits until it is free.
CallbackMutexFree == dlv.pc # "cb_call"

\* start_monitoring(callback, user_data) while the monitor is running.
CbStartRejected ==
    /\ pc["main"] = "idle"
    /\ g_monitoring
    /\ g_last_error' = ERR_RUNNING
    /\ ret' = Return("start_monitoring", FALSE)
    /\ UNCHANGED <<g_monitoring, g_monitor_thread, g_event_queue,
                   g_com_initialized, g_event_available, g_event_callback,
                   g_callback_user_data, g_event_sink, cleanup_in_progress,
                   hcloses, nhandles, signaled, threads, sinks, pc, loc, arg,
                   dlv, nrecs, hist>>

\* if (!callback) { g_last_error = "Callback function cannot be null";
\*                  return false; }
CbStartNullCallback ==
    /\ pc["main"] = "idle"
    /\ ~g_monitoring
    /\ g_last_error' = ERR_NULL_CALLBACK
    /\ ret' = Return("start_monitoring", FALSE)
    /\ UNCHANGED <<g_monitoring, g_monitor_thread, g_event_queue,
                   g_com_initialized, g_event_available, g_event_callback,
                   g_callback_user_data, g_event_sink, cleanup_in_progress,
                   hcloses, nhandles, signaled, threads, sinks, pc, loc, arg,
                   dlv, nrecs, hist>>

\* lock; g_callback = callback; g_user_data = user_data; g_monitoring = true;
\* g_monitor_thread = std::thread(monitor_thread_function); return true;
\* with g_monitor_thread not joinable.
CbStartMonitoring(p) ==
    /\ pc["main"] = "idle"
    /\ ~g_monitoring
    /\ p # NullCallback
    /\ CallbackMutexFree
    /\ g_monitor_thread = 0
    /\ Unborn # {}
    /\ g_event_callback' = p
    /\ g_callback_user_data' = p
    /\ g_monitoring' = TRUE
    /\ LET t == CHOOSE u \in Unborn : \A v \in Unborn : u <= v IN
          /\ threads' = [threads EXCEPT ![t] = "new"]
          /\ g_monitor_thread' = t
    /\ ret' = Return("start_monitoring", TRUE)
    /\ UNCHANGED <<g_last_error, g_event_queue, g_com_initialized,
                   g_event_available, g_event_sink, cleanup_in_progress,
                   hcloses, nhandles, signaled, sinks, pc, loc, arg, dlv,
                   nrecs, hist>>

\* The same with g_monitor_thread still joinable (the thread of a session whose
\* Initialize() failed was never joined): the move assignment calls
\* std::terminate.
CbStartTerminates(p) ==
    /\ pc["main"] = "idle"
    /\ ~g_monitoring
    /\ p # NullCallback
    /\ CallbackMutexFree
    /\ g_monitor_thread # 0
    /\ g_event_callback' = p
    /\ g_callback_user_data' = p
    /\ g_monitoring' = TRUE
    /\ pc' = [pc EXCEPT !["main"] = "terminated"]
    /\ UNCHANGED <<g_last_error, g_monitor_thread, g_event_queue,
                   g_com_initialized, g_event_available, g_event_sink,
                   cleanup_in_progress, hcloses, nhandles, signaled, threads,
                   sinks, loc, arg, ret, dlv, nrecs, hist>>

\* stop_monitoring(): if (!g_monitoring) return true;
CbStopIdle ==
    /\ pc["main"] = "idle"
    /\ ~g_monitoring
    /\ ret' = Return("stop_monitoring", TRUE)
    /\ UNCHANGED <<globals, threads, sinks, pc, loc, arg, dlv, nrecs, hist>>

\* g_monitoring = false; then on to the join.
CbStopBegin ==
    /\ pc["main"] = "idle"
    /\ g_monitoring
    /\ g_monitoring' = FALSE
    /\ pc' = [pc EXCEPT !["main"] = "cb_join"]
    /\ UNCHANGED <<g_last_error, g_monitor_thread, g_event_queue,
                   g_com_initialized, g_event_available, g_event_callback,
                   g_callback_user_data, g_event_sink, cleanup_in_progress,
                   hcloses, nhandles, signaled, threads, sinks, loc, arg, ret,
                   dlv, nrecs, hist>>

\* A stop_monitoring that clears the callback without taking g_callback_mutex.
CbStopJoinNoLock ==
    /\ pc["main"] = "cb_join"
    /\ g_monitor_thread # 0 => threads[g_monitor_thread] = "done"
    /\ g_monitor_thread' = 0
    /\ g_event_callback' = 0
    /\ g_callback_user_data' = 0
    /\ ret' = Return("stop_monitoring", TRUE)
    /\ pc' = [pc EXCEPT !["main"] = "idle"]
    /\ UNCHANGED <<g_last_error, g_monitoring, g_event_queue,
                   g_com_initialized, g_event_available, g_event_sink,
                   cleanup_in_progress, hcloses, nhandles, signaled, threads,
                   sinks, loc, arg, dlv, nrecs, hist>>

\* if (joinable()) join(); { lock; g_callback = nullptr; g_user_data = nullptr; }
\* return true;
CbStopJoin ==
    /\ pc["main"] = "cb_join"
    /\ g_monitor_thread # 0 => threads[g_monitor_thread] = "done"
    /\ CallbackMutexFree
    /\ g_monitor_thread' = 0
    /\ g_event_callback' = 0
    /\ g_callback_user_data' = 0
    /\ ret' = Return("stop_monitoring", TRUE)
    /\ pc' = [pc EXCEPT !["main"] = "idle"]
    /\ UNCHANGED <<g_last_error, g_monitoring, g_event_queue,
                   g_com_initialized, g_event_available, g_event_sink,
                   cleanup_in_progress, hcloses, nhandles, signaled, threads,
                   sinks, loc, arg, dlv, nrecs, hist>>

\* monitor_thread_function: g_event_sink = new FFIProcessEventSink();
CbBgNew(t) ==
    /\ threads[t] = "new"
    /\ g_event_sink' = t
    /\ sinks' = [sinks EXCEPT ![t] = [NoSink EXCEPT !.alive = TRUE]]
    /\ threads' = [threads EXCEPT ![t] = "init"]
    /\ UNCHANGED <<g_last_error, g_monitoring, g_monitor_thread,
                   g_event_queue, g_com_initialized, g_event_available,
                   g_event_callback, g_callback_user_data,
                   cleanup_in_progress, hcloses, nhandles, signaled, pc, loc,
                   arg, ret, dlv, nrecs, hist>>

\* g_event_sink->Initialize() returns true.
CbBgInitializeOk(t) ==
    /\ threads[t] = "init"
    /\ sinks' = [sinks EXCEPT ![g_event_sink] = CbInitialize(@, "ok")]
    /\ threads' = [threads EXCEPT ![t] = "loop"]
    /\ UNCHANGED <<globals, pc, loc, arg, ret, dlv, nrecs, hist>>

\* g_event_sink->Initialize() returns false: delete g_event_sink;
\* g_event_sink = nullptr; g_monitoring = false; return;
CbBgInitializeFail(t) ==
    /\ threads[t] = "init"
    /\ \E outcome \in CbInitSteps :
          /\ sinks' = [sinks EXCEPT ![g_event_sink] =
                          CbDelete(CbInitialize(@, outcome))]
          /\ g_last_error' = InitializeError(outcome)
    /\ g_event_sink' = 0
    /\ g_monitoring' = FALSE
    /\ threads' = [threads EXCEPT ![t] = "done"]
    /\ UNCHANGED <<g_monitor_thread, g_event_queue, g_com_initialized,
                   g_event_available, g_event_callback, g_callback_user_data,
                   cleanup_in_progress, hcloses, nhandles, signaled, pc, loc,
                   arg, ret, dlv, nrecs, hist>>

\* while (g_monitoring) Sleep(100); delete g_event_sink; g_event_sink = nullptr;
CbBgLoopExit(t) ==
    /\ threads[t] = "loop"
    /\ ~g_monitoring
    /\ sinks' = [sinks EXCEPT ![g_event_sink] = CbDelete(@)]
    /\ g_event_sink' = 0
    /\ threads' = [threads EXCEPT ![t] = "done"]
    /\ UNCHANGED <<g_last_error, g_monitoring, g_monitor_thread,
                   g_event_queue, g_com_initialized, g_event_available,
                   g_event_callback, g_callback_user_data,
                   cleanup_in_progress, hcloses, nhandles, signaled, pc, loc,
                   arg, ret, dlv, nrecs, hist>>

\* The service calls Indicate(n, records) of the callback-only variant on a
\* sink that holds a registration for the records' class; the call is now at
\* its first line, about to take g_callback_mutex.
CbIndicateBegin(s, cls, n) ==
    /\ dlv.pc = "idle"
    /\ Registered(s, cls)
    /\ dlv' = [IdleDelivery EXCEPT !.pc = "cb_enter", !.cls = cls, !.n = n,
                                   !.i = 1]
    /\ UNCHANGED <<globals, threads, sinks, pc, loc, arg, ret, nrecs, hist>>

\* std::lock_guard lock(g_callback_mutex);
\* if (!g_callback) return WBEM_S_NO_ERROR;  else on to the loop, lock held.
CbIndicateLock ==
    /\ dlv.pc = "cb_enter"
    /\ dlv' = IF g_event_callback = 0 THEN IdleDelivery
              ELSE [dlv EXCEPT !.pc = "cb_call", !.cb = g_event_callback]
    /\ UNCHANGED <<globals, threads, sinks, pc, loc, arg, ret, nrecs, hist>>

\* One turn of the loop: the record has a TargetInstance or not; with one,
\* g_callback(&event_data, g_user_data) is called with the globals as they
\* are now, outside any try block, and returns or throws.  After the last
\* record Indicate returns and the lock is released.
CbIndicateCall(outcome) ==
    /\ dlv.pc = "cb_call"
    /\ LET next == IF dlv.i < dlv.n THEN [dlv EXCEPT !.i = @ + 1]
                    ELSE IdleDelivery
       IN  dlv' = CASE outcome = "noinstance" -> next
                    [] g_event_callback = 0 -> Crashed
                    [] outcome = "throws" -> Unwound
                    [] OTHER -> next
    /\ nrecs' = nrecs + 1
    /\ UNCHANGED <<globals, threads, sinks, pc, loc, arg, ret, hist>>

\* ============ the plugin's stream handler (src/windows/process_event_sink.cpp)
\* One ProcessEventSink object, held by the plugin in a static shared pointer
\* and kept in sinks[1]; the controller is "listening" between an OnListen
\* that reported no error and the OnCancel that follows it.  m_sink, the
\* listener the object reports to, is held in g_event_callback: the n-th call
\* of OnListen brings listener n.
PES_OK == "nullptr"
PES_COM == "ERROR_INIT_COM"
PES_SECURITY == "ERROR_INIT_SECURITY"
PES_LOCATOR == "ERROR_CREATE_LOCATOR"
PES_CONNECT == "ERROR_CONNECT_SERVER"
PES_BLANKET == "ERROR_PROXY_BLANKET"
PES_APARTMENT == "ERROR_UNSECURED_APARTMENT"
PES_QUERY == "ERROR_QUERY_ASYNC"

\* What the environment lets a call of OnListen run into: the first step that
\* fails, "creation" and "deletion" being the failure of that registration
\* alone and "both" the failure of both registrations.
ListenOutcomes == CbInitSteps \cup {"both", "ok"}

\* ProcessEventSink::Cleanup(): CancelAsyncCall is called whenever m_pSvc is
\* set; with a null stub it cancels nothing.
PesCleanup(k) ==
    [k EXCEPT !.regC = IF k.svc /\ k.stub THEN FALSE ELSE @,
              !.regD = IF k.svc /\ k.stub THEN FALSE ELSE @,
              !.svc = FALSE,
              !.svcRefs = IF k.svc THEN Floor2(@ - 1) ELSE @,
              !.stub = FALSE,
              !.stubRefs = IF k.stub THEN Floor2(@ - 1) ELSE @,
              !.com = Floor2(@ - 1),
              !.cleanups = Cap2(@ + 1)]

\* ProcessEventSink::OnListen: the object it leaves behind.  The result of the
\* creation registration is overwritten by that of the deletion registration
\* before it is tested.
OnListen(k, outcome) ==
    LET k1 == CoInitializeEx(k)
        k2 == Connected(k1)
        k3 == Stubbed(k2)
    IN  CASE outcome = "com" -> k
          [] outcome = "security" -> CoUninitialize(k1)
          [] outcome = "locator" -> CoUninitialize(k1)
          [] outcome = "connect" -> CoUninitialize(k1)
          [] outcome = "blanket" -> CoUninitialize(SvcReleased(k2))
          [] outcome = "apartment" -> CoUninitialize(SvcReleased(k2))
          [] outcome = "creation" -> [k3 EXCEPT !.regD = TRUE]
          [] outcome = "deletion" -> PesCleanup([k3 EXCEPT !.regC = TRUE])
          [] outcome = "both" -> PesCleanup(k3)
          [] outcome = "ok" -> [k3 EXCEPT !.regC = TRUE, !.regD = TRUE]

\* The error OnListen returns, nullptr for none.
OnListenResult(outcome) ==
    CASE outcome = "com" -> PES_COM
      [] outcome = "security" -> PES_SECURITY
      [] outcome = "locator" -> PES_LOCATOR
      [] outcome = "connect" -> PES_CONNECT
      [] outcome = "blanket" -> PES_BLANKET
      [] outcome = "apartment" -> PES_APARTMENT
      [] outcome \in {"deletion", "both"} -> PES_QUERY
      [] outcome \in {"creation", "ok"} -> PES_OK

\* The stream gets its first listener: sink->OnListen(arguments, events),
\* m_sink = std::move(events) and the subscription steps.
OnListenCall(outcome) ==
    /\ pc["main"] = "idle"
    /\ sinks[1].alive
    /\ g_event_callback < MaxListens
    /\ g_event_callback' = g_event_callback + 1
    /\ sinks' = [sinks EXCEPT ![1] = OnListen(@, outcome)]
    /\ ret' = Return("OnListen", OnListenResult(outcome))
    /\ pc' = [pc EXCEPT !["main"] =
                 IF OnListenResult(outcome) = PES_OK THEN "listening"
                 ELSE "idle"]
    /\ UNCHANGED <<g_last_error, g_monitoring, g_monitor_thread,
                   g_event_queue, g_com_initialized, g_event_available,
                   g_callback_user_data, g_event_sink, cleanup_in_progress,
                   hcloses, nhandles, signaled, threads, loc, arg, dlv, nrecs,
                   hist>>

\* The listener goes away: sink->OnCancel(arguments) { Cleanup(); }
OnCancelCall ==
    /\ pc["main"] = "listening"
    /\ sinks[1].alive
    /\ sinks' = [sinks EXCEPT ![1] = PesCleanup(@)]
    /\ ret' = Return("OnCancel", PES_OK)
    /\ pc' = [pc EXCEPT !["main"] = "idle"]
    /\ UNCHANGED <<globals, threads, loc, arg, dlv, nrecs, hist>>

\* The process ends: the static shared pointer lets go of the object,
\* ~ProcessEventSink() { Cleanup(); }
PesDestroy ==
    /\ sinks[1].alive
    /\ sinks' = [sinks EXCEPT ![1] = SinkDelete(PesCleanup(@))]
    /\ UNCHANGED <<globals, threads, pc, loc, arg, ret, dlv, nrecs, hist>>

\* ------------------------------------------------------ specification
BgStep ==
    \E t \in ThreadIds :
       \/ BgNew(t)
       \/ BgInitializeOk(t)
       \/ BgInitializeFail(t)
       \/ BgLoopExit(t)

\* The background thread running into a pointer that cleanup_process_monitor
\* has reset under it.
BgFaultStep == \E t \in ThreadIds : BgInitializeNull(t)

StartPullStep ==
    \/ StartRejected("start_monitoring")
    \/ StartMonitoringNoEvent
    \/ StartMonitoringBegin

StartPushStep ==
    \/ StartRejected("start_monitoring_with_callback")
    \/ \E p \in CallbackPairs : StartCallbackBegin(p)
    \/ StartCallbackFlag

\* start_monitoring_with_callback called with any pointer, nullptr included.
StartPushAnyStep ==
    \/ StartRejected("start_monitoring_with_callback")
    \/ \E p \in CallbackArgs : StartCallbackBegin(p)
    \/ StartCallbackFlag

StartThreadStep ==
    \/ StartJoin
    \/ StartSpawn
    \/ StartSpawnFails

StopStep ==
    \/ StopBegin
    \/ StopEnd

CleanupStep(c) ==
    \/ CleanupSkipped(c)
    \/ CleanupBegin(c)
    \/ CleanupDetach(c)
    \/ CleanupSinkExamine(c)
    \/ CleanupSinkRelease(c)
    \/ CleanupQueue(c)
    \/ CleanupHandleExamine(c)
    \/ CleanupNoHandle(c)
    \/ CleanupClose(c)

WaitStep ==
    \/ \E t \in Timeouts : WaitNotInitialized(t) \/ WaitBegin(t)
    \/ WaitSignaled
    \/ WaitSize
    \/ WaitTimeout

GetStep ==
    \/ GetNextEvent
    \/ \E max \in 0..MaxRecords + 1 : GetAllEvents(max)

IndicateStep(classes, limit) ==
    \/ \E s \in ThreadIds, cls \in classes, n \in 1..MaxRecords :
          nrecs + n <= limit /\ IndicateBegin(s, cls, n)
    \/ IndicateEnqueue
    \/ IndicateCheckSignal
    \/ IndicateSetEvent
    \/ IndicateNoCallback

CallbackStep ==
    \/ IndicateSeesCallback
    \/ \E outcome \in {"returns", "throws"} : IndicateCall(outcome)
    \/ IndicateCallNull

\* The background thread up to its polling loop, Initialize() succeeding or
\* failing at any of its steps.
BgSetupStep ==
    \E t \in ThreadIds :
       \/ BgNew(t)
       \/ BgInitializeOk(t)
       \/ BgInitializeFails(t, InitSteps)

CbStartStep ==
    \/ CbStartRejected
    \/ CbStartNullCallback
    \/ \E p \in CallbackPairs : CbStartMonitoring(p) \/ CbStartTerminates(p)

CbStopStep ==
    \/ CbStopIdle
    \/ CbStopBegin
    \/ CbStopJoin

CbBgStep ==
    \E t \in ThreadIds :
       \/ CbBgNew(t)
       \/ CbBgInitializeOk(t)
       \/ CbBgInitializeFail(t)
       \/ CbBgLoopExit(t)

CbIndicateStep ==
    \/ \E s \in ThreadIds, cls \in EventClasses, n \in 1..MaxRecords :
          nrecs + n <= MaxRecords /\ CbIndicateBegin(s, cls, n)
    \/ CbIndicateLock
    \/ \E outcome \in {"noinstance", "returns", "throws"} :
          CbIndicateCall(outcome)

\* ------------------------------------------------------ specifications
\* start_monitoring called again and again, never stop_monitoring: sessions
\* end only because Initialize() fails.  The background thread is scheduled
\* and the calls it makes return; so do the controller's join and spawn.
NextAbort ==
    \/ BgSetupStep
    \/ StartPullStep
    \/ StartThreadStep

SpecAbort ==
    /\ Init
    /\ [][NextAbort]_vars
    /\ WF_vars(BgSetupStep)
    /\ WF_vars(StartThreadStep)

\* The callback-only variant: sessions started and stopped, Initialize()
\* succeeding or failing at any of its steps.
NextCallbackApi ==
    \/ CbStartStep
    \/ CbStopStep
    \/ CbBgStep

SpecCallbackApi == Init /\ [][NextCallbackApi]_vars

\* The callback-only variant with the service delivering records while
\* sessions are started and stopped.
NextCallbackDelivery ==
    \/ CbStartStep
    \/ CbStopStep
    \/ CbBgStep
    \/ CbIndicateStep

SpecCallbackDelivery == Init /\ [][NextCallbackDelivery]_vars

\* The plugin's stream handler listened to and cancelled, OnListen succeeding
\* or failing at any of its steps, until the process ends.
InitPlugin ==
    /\ g_last_error = ERR_NONE
    /\ g_monitoring = FALSE
    /\ g_monitor_thread = 0
    /\ g_event_queue = <<>>
    /\ g_com_initialized = FALSE
    /\ g_event_available = 0
    /\ g_event_callback = 0
    /\ g_callback_user_data = 0
    /\ g_event_sink = 0
    /\ cleanup_in_progress = FALSE
    /\ hcloses = [h \in 1..MaxHandles |-> 0]
    /\ nhandles = 0
    /\ signaled = FALSE
    /\ threads = [t \in ThreadIds |-> "unborn"]
    /\ sinks = [t \in ThreadIds |->
                  IF t = 1 THEN [NoSink EXCEPT !.alive = TRUE] ELSE NoSink]
    /\ pc = [c \in Callers |-> "idle"]
    /\ loc = [c \in Callers |-> 0]
    /\ arg = 0
    /\ ret = NoRet
    /\ dlv = IdleDelivery
    /\ nrecs = 0
    /\ hist = [life |-> "none", quiet |-> "no", pull |-> FALSE,
               teardown |-> {}]

NextPlugin ==
    \/ \E outcome \in ListenOutcomes : OnListenCall(outcome)
    \/ OnCancelCall
    \/ PesDestroy

SpecPlugin == InitPlugin /\ [][NextPlugin]_vars

\* A controller starting in either mode and stopping, the background threads,
\* the service delivering creation records, the callback returning or throwing.
NextSession ==
    \/ BgStep
    \/ StartPullStep
    \/ StartPushStep
    \/ StartThreadStep
    \/ StopStep
    \/ IndicateStep({CreationClass}, MaxRecords)
    \/ CallbackStep

SpecSession == Init /\ [][NextSession]_vars

\* The same with start_monitoring_with_callback given any pointer, a null
\* callback included.
NextPush ==
    \/ BgStep
    \/ StartPullStep
    \/ StartPushAnyStep
    \/ StartThreadStep
    \/ StopStep
    \/ IndicateStep({CreationClass}, MaxRecords)
    \/ CallbackStep

SpecPush == Init /\ [][NextPush]_vars

\* Pull-mode sessions torn down by cleanup_process_monitor called from two
\* threads.
NextTeardown ==
    \/ BgStep
    \/ BgFaultStep
    \/ StartPullStep
    \/ StartThreadStep
    \/ StopStep
    \/ \E c \in Callers : CleanupStep(c)

SpecTeardown == Init /\ [][NextTeardown]_vars

\* Pull-mode sessions, started and stopped, with a consumer waiting.
NextWait ==
    \/ BgStep
    \/ StartPullStep
    \/ StartThreadStep
    \/ StopStep
    \/ WaitStep
    \/ IndicateStep({CreationClass}, MaxRecords)

SpecWait == Init /\ [][NextWait]_vars

\* Pull-mode sessions ended by cleanup_process_monitor, with a consumer
\* waiting on the controller's thread.
NextSignal ==
    \/ BgStep
    \/ BgFaultStep
    \/ StartPullStep
    \/ StartThreadStep
    \/ WaitStep
    \/ IndicateStep({CreationClass}, MaxWoken)
    \/ CleanupStep("main")

SpecSignal == Init /\ [][NextSignal]_vars

\* Whole lives of pull-mode sessions: start, deliveries, stop, cleanup, again.
NextLife ==
    \/ BgStep
    \/ BgFaultStep
    \/ StartPullStep
    \/ StartThreadStep
    \/ StopStep
    \/ CleanupStep("main")
    \/ IndicateStep(EventClasses, MaxRecords)

SpecLife == Init /\ [][NextLife]_vars

\* One running pull-mode session flooded with single records and never read:
\* the state start_monitoring and a successful Initialize() leave behind.
InitCap ==
    /\ g_last_error = ERR_NONE
    /\ g_monitoring = TRUE
    /\ g_monitor_thread = 1
    /\ g_event_queue = <<>>
    /\ g_com_initialized = TRUE
    /\ g_event_available = 1
    /\ g_event_callback = 0
    /\ g_callback_user_data = 0
    /\ g_event_sink = 1
    /\ cleanup_in_progress = FALSE
    /\ hcloses = [h \in 1..MaxHandles |-> 0]
    /\ nhandles = 1
    /\ signaled = FALSE
    /\ threads = [t \in ThreadIds |-> IF t = 1 THEN "loop" ELSE "unborn"]
    /\ sinks = [t \in ThreadIds |->
                  IF t = 1
                    THEN SinkInitialize([NoSink EXCEPT !.alive = TRUE], FALSE,
                                        "ok")
                    ELSE NoSink]
    /\ pc = [c \in Callers |-> "idle"]
    /\ loc = [c \in Callers |-> 0]
    /\ arg = 0
    /\ ret = Return("start_monitoring", TRUE)
    /\ dlv = IdleDelivery
    /\ nrecs = 0
    /\ hist = [life |-> "started", quiet |-> "yes", pull |-> TRUE,
               teardown |-> {}]

NextCap ==
    \/ nrecs < MaxFlood /\ IndicateBegin(1, CreationClass, 1)
    \/ IndicateEnqueue
    \/ IndicateCheckSignal
    \/ IndicateSetEvent
    \/ IndicateNoCallback

SpecCap == InitCap /\ [][NextCap]_vars

\* One running pull-mode session: the service delivers raw records of either
\* class, short and long names, and the consumer reads them.
NextRecords ==
    \/ \E cls \in EventClasses, n \in 1..MaxRecords :
          nrecs + n <= MaxQueued /\ IndicateBegin(1, cls, n)
    \/ \E raw \in RawRecords : IndicateEnqueueOf(raw)
    \/ IndicateCheckSignal
    \/ IndicateSetEvent
    \/ IndicateNoCallback
    \/ GetStep

SpecRecords == InitCap /\ [][NextRecords]_vars

\* Pull-mode sessions stopped and started again.  The background threads are
\* scheduled (each step a thread can take it eventually takes, Initialize()
\* returning true or false), and a start that has begun goes on whenever its
\* join or its spawn can; the controller is free to call or not.
NextRestart ==
    \/ BgStep
    \/ StartPullStep
    \/ StartThreadStep
    \/ StopStep

BgThread(t) ==
    \/ BgNew(t)
    \/ BgInitializeOk(t)
    \/ BgInitializeFail(t)
    \/ BgLoopExit(t)

SpecRestart ==
    /\ Init
    /\ [][NextRestart]_vars
    /\ \A t \in ThreadIds : WF_vars(BgThread(t))
    /\ WF_vars(StartThreadStep)

\* Sessions of either mode, started and stopped, with a consumer waiting for
\* the wake signal.
NextPushWait ==
    \/ BgStep
    \/ StartPullStep
    \/ StartPushStep
    \/ StartThreadStep
    \/ StopStep
    \/ WaitStep
    \/ IndicateStep({CreationClass}, MaxWoken)
    \/ CallbackStep

SpecPushWait == Init /\ [][NextPushWait]_vars

\* A running pull-mode session whose queue is full: the state of the flooded
\* session after QUEUE_CAP single records, none of them read.
FullQueue ==
    [i \in 1..QUEUE_CAP |->
        MakeEvent([cls |-> CreationClass, name |-> ProcessName, pid |-> i])]

InitFull ==
    /\ g_last_error = ERR_NONE
    /\ g_monitoring = TRUE
    /\ g_monitor_thread = 1
    /\ g_event_queue = FullQueue
    /\ g_com_initialized = TRUE
    /\ g_event_available = 1
    /\ g_event_callback = 0
    /\ g_callback_user_data = 0
    /\ g_event_sink = 1
    /\ cleanup_in_progress = FALSE
    /\ hcloses = [h \in 1..MaxHandles |-> 0]
    /\ nhandles = 1
    /\ signaled = TRUE
    /\ threads = [t \in ThreadIds |-> IF t = 1 THEN "loop" ELSE "unborn"]
    /\ sinks = [t \in ThreadIds |->
                  IF t = 1
                    THEN SinkInitialize([NoSink EXCEPT !.alive = TRUE], FALSE,
                                        "ok")
                    ELSE NoSink]
    /\ pc = [c \in Callers |-> "idle"]
    /\ loc = [c \in Callers |-> 0]
    /\ arg = 0
    /\ ret = Return("start_monitoring", TRUE)
    /\ dlv = IdleDelivery
    /\ nrecs = QUEUE_CAP
    /\ hist = [life |-> "started", quiet |-> "no", pull |-> TRUE,
               teardown |-> {}]

\* From there: more records delivered, in batches, while the consumer reads
\* (as long as the queue is within MaxWoken records of its cap), the
\* controller stops and starts again, and cleanup_process_monitor runs (it
\* finds the wake signal of the running session to close).
NextFull ==
    \/ \E s \in ThreadIds, n \in 1..MaxRecords :
          nrecs + n <= QUEUE_CAP + MaxWoken /\ IndicateBegin(s, CreationClass, n)
    \/ IndicateEnqueue
    \/ IndicateCheckSignal
    \/ IndicateSetEvent
    \/ IndicateNoCallback
    \/ Len(g_event_queue) >= QUEUE_CAP - MaxWoken /\ GetStep
    \/ BgStep
    \/ StartPullStep
    \/ StartThreadStep
    \/ StopStep
    \/ CleanupSkipped("main")
    \/ CleanupBegin("main")
    \/ CleanupDetach("main")
    \/ CleanupSinkExamine("main")
    \/ CleanupSinkRelease("main")
    \/ CleanupQueue("main")
    \/ CleanupHandleExamine("main")
    \/ CleanupClose("main")

SpecFull == InitFull /\ [][NextFull]_vars

\* Pull-mode sessions with a consumer waiting on the controller's thread and
\* records being delivered, while a second thread calls
\* cleanup_process_monitor.
NextRelease ==
    \/ BgStep
    \/ BgFaultStep
    \/ StartPullStep
    \/ StartThreadStep
    \/ WaitStep
    \/ WaitFailed
    \/ IndicateStep({CreationClass}, MaxWoken)
    \/ CleanupStep("aux")

SpecRelease == Init /\ [][NextRelease]_vars

\* ----------------------------------------------------------- properties
StartOps == {"start_monitoring", "start_monitoring_with_callback"}

AliveThreads == {t \in ThreadIds : BgAlive(t)}

Outstanding == {s \in ThreadIds : sinks[s].regC \/ sinks[s].regD}

\* C1: whenever cleanup_process_monitor returns at the end of a sequence
\* start_monitoring -> deliveries -> stop_monitoring -> cleanup_process_monitor,
\* the first such sequence of the process or a later one, is_monitoring() is
\* false and get_pending_event_count() is 0.
C1_CleanupPostcondition ==
    hist.life = "cleaned" => ~is_monitoring /\ get_pending_event_count = 0

\* A later sequence has ended with its records still in the queue.
C1_RecordsSurviveCleanup ==
    /\ hist.life = "cleaned"
    /\ cleanup_in_progress
    /\ get_pending_event_count > 0

\* C2: in every reachable state at most one background monitor thread is
\* alive.
C2_OneBackgroundThread == Cardinality(AliveThreads) <= 1

\* Two background threads are alive, the older one detached by cleanup.
C2_TwoThreadsAlive ==
    /\ Cardinality(AliveThreads) = 2
    /\ cleanup_in_progress

\* C3: after n enqueues and no dequeue the queue holds exactly the most recent
\* min(n, 1000) records in the order they came; the oldest are the ones
\* dropped.
C3_QueueKeepsNewest ==
    /\ Len(g_event_queue) = Min(nrecs, QUEUE_CAP)
    /\ \A i \in 1..Len(g_event_queue) :
          g_event_queue[i].process_id = nrecs - Len(g_event_queue) + i

\* 1200 records have been enqueued: the queue holds records 201..1200.
C3_FloodedQueue ==
    /\ nrecs = 1200
    /\ Len(g_event_queue) = QUEUE_CAP
    /\ g_event_queue[1].process_id = 201
    /\ g_event_queue[QUEUE_CAP].process_id = 1200

\* A start call made while the running flag is set has returned.
StartReturnsWhileRunning ==
    /\ g_monitoring
    /\ pc["main"] = "idle"
    /\ pc'["main"] = "idle"
    /\ ret'.op \in StartOps
    /\ \/ ret' # ret
       \/ g_last_error' # g_last_error /\ g_last_error' = ERR_RUNNING

\* C4: a start_monitoring or start_monitoring_with_callback called while a
\* session is running returns false and changes nothing but the last-error
\* text, which becomes the already-running message; it never gets as far as
\* the start proper.
C4_StartWhileRunningRejected ==
    [][/\ StartReturnsWhileRunning =>
            /\ ret'.val = FALSE
            /\ g_last_error' = ERR_RUNNING
            /\ UNCHANGED <<g_monitoring, g_event_queue, g_event_callback,
                           g_callback_user_data, g_monitor_thread, threads,
                           g_event_sink, sinks, g_event_available, signaled>>
       /\ g_monitoring /\ pc["main"] = "idle" =>
            pc'["main"] \notin {"sm_join", "sc_ud"}]_vars

\* A start has been rejected in a push-mode session with records buffered.
C4_RejectedInRunningSession ==
    /\ ret \in {Return(op, FALSE) : op \in StartOps}
    /\ g_last_error = ERR_RUNNING
    /\ g_monitoring
    /\ g_event_callback # 0
    /\ g_callback_user_data # 0
    /\ g_event_queue # <<>>
    /\ AliveThreads # {}

CleanupPcs == {"cu_join", "cu_sink", "cu_sinkdo", "cu_queue", "cu_handle",
               "cu_close"}

C6_StopFrame ==
    [][LET stopping == pc["main"] = "idle" /\ pc'["main"] = "st_ud"
           ending == pc["main"] = "st_ud" /\ pc'["main"] # "st_ud"
       IN  /\ stopping \/ ending =>
                UNCHANGED <<g_event_queue, g_event_available, signaled,
                            hcloses, nhandles, g_event_sink, sinks, threads,
                            g_monitor_thread, g_last_error>>
           /\ ending =>
                /\ pc'["main"] = "idle"
                /\ ret' = Return("stop_monitoring", TRUE)
                /\ ~g_monitoring'
                /\ g_event_callback' = 0
                /\ g_callback_user_data' = 0
           /\ pc["main"] = "idle" => ENABLED StopBegin
           /\ pc["main"] = "st_ud" => ENABLED StopEnd]_vars

\* stop_monitoring has returned with records buffered, the thread still in
\* its loop and the subscription still registered.
C6_StoppedSessionIntact ==
    /\ ret = Return("stop_monitoring", TRUE)
    /\ g_event_queue # <<>>
    /\ \E t \in ThreadIds : threads[t] = "loop" /\ t \in Outstanding
    /\ g_event_sink # 0

\* C7: with a callback registered, a callback that throws never takes the
\* fault out of Indicate: Indicate goes on to the next record of the batch or
\* returns, and no global changes, so later calls attempt the callback again.
C7_ThrowStaysInside ==
    [][dlv.pc = "call" /\ g_event_callback # 0 /\ dlv' # dlv =>
          /\ dlv'.pc = IF dlv.i < dlv.n THEN "enq" ELSE "idle"
          /\ dlv'.i = IF dlv.i < dlv.n THEN dlv.i + 1 ELSE 0
          /\ UNCHANGED <<globals, threads, sinks>>]_vars

\* The callback threw on the first record of a batch and is being called for
\* the second one.
C7_CalledAgainAfterThrow ==
    /\ dlv.threw
    /\ dlv.pc = "call"
    /\ dlv.i = 2

\* wait_for_events is leaving WaitForSingleObject for its caller.
WaitReturns == pc["main"] \in {"w_wait", "w_size"} /\ pc'["main"] = "idle"

\* C8: in a session start_monitoring has started and in which no record has
\* been enqueued since start_monitoring emptied the queue, a wait_for_events
\* with a finite timeout can always go on, and the value it returns is 0.
C8_FreshWaitReturnsZero ==
    [][/\ hist.quiet = "yes" /\ WaitReturns =>
            ret' = Return("wait_for_events", 0)
       /\ pc["main"] = "w_wait" /\ arg # INFINITE =>
            ENABLED (WaitSignaled \/ WaitTimeout)
       /\ pc["main"] = "w_size" => ENABLED WaitSize]_vars

\* A restarted session with nothing enqueued yet: the wait has been woken by
\* the signal a record of the earlier session left set, and is about to
\* return the size of the queue.
C8_WokenByStaleSignal ==
    /\ hist.quiet = "yes"
    /\ pc["main"] = "w_size"
    /\ arg # INFINITE
    /\ nrecs > 0
    /\ g_monitoring

\* wait_for_events has returned.
WaitReturned ==
    \/ WaitReturns
    \/ /\ pc["main"] = "idle"
       /\ pc'["main"] = "idle"
       /\ ret'.op = "wait_for_events"
       /\ ret' # ret

C10_SubscriptionReclaimed ==
    hist.life = "cleaned" /\ AliveThreads = {} => Outstanding = {}

\* The thread left its loop before cleanup_process_monitor examined
\* g_event_sink: the subscription was never cleaned up and stays registered.
C10_RegistrationLeaked ==
    /\ hist.life = "cleaned"
    /\ AliveThreads = {}
    /\ \E s \in Outstanding : sinks[s].alive /\ sinks[s].cleanups = 0

\* A step of a start_monitoring_with_callback call whose callback is null.
NullCallbackStart ==
    \/ /\ pc["main"] = "idle"
       /\ pc'["main"] = "sc_ud"
       /\ arg' = NullCallback
    \/ /\ pc["main"] \in {"sc_ud", "sc_join", "sc_spawn"}
       /\ arg = NullCallback
       /\ pc'["main"] # pc["main"]

\* C11: start_monitoring_with_callback called with a null callback returns
\* false at once: it spawns no background thread and leaves the running flag
\* false.
C11_NullCallbackRejected ==
    [][NullCallbackStart =>
          /\ pc'["main"] = "idle"
          /\ ret' = Return("start_monitoring_with_callback", FALSE)
          /\ ~g_monitoring'
          /\ UNCHANGED <<threads, g_monitor_thread>>]_vars

\* start_monitoring_with_callback(nullptr, ...) has returned true: the flag is
\* set and the thread it spawned is running with no callback registered.
C11_NullCallbackSessionRunning ==
    /\ ret = Return("start_monitoring_with_callback", TRUE)
    /\ pc["main"] = "idle"
    /\ is_monitoring
    /\ g_event_callback = NullCallback
    /\ g_monitor_thread # 0
    /\ threads[g_monitor_thread] = "loop"

\* C12: in a session started with start_monitoring_with_callback no record is
\* buffered: while the session runs with its callback registered,
\* get_pending_event_count() is 0.
C12_PushModeBuffersNothing ==
    is_monitoring /\ g_event_callback # NullCallback =>
        get_pending_event_count = 0

\* The first session of the process, started with a callback: its first
\* record is in the queue while Indicate is calling the callback for it.
C12_RecordBufferedAndPushed ==
    /\ ret = Return("start_monitoring_with_callback", TRUE)
    /\ is_monitoring
    /\ g_event_callback # NullCallback
    /\ threads = [t \in ThreadIds |-> IF t = 1 THEN "loop" ELSE "unborn"]
    /\ dlv.pc = "call"
    /\ nrecs = 1
    /\ get_pending_event_count = 1

\* C13: get_all_events(buf, max) with max > 0 returns k = min(max, queue size),
\* writes the k oldest records in the order they were enqueued and removes
\* exactly those, leaving the rest in order; get_next_event does the same for
\* one record and returns false, the queue unchanged, when the queue is empty.
C13_GetsTakeOldestFirst ==
    [][/\ \A max \in 1..MaxRecords + 1 :
             GetAllEvents(max) =>
                LET k == Min(max, Len(g_event_queue)) IN
                   /\ ret'.val = k
                   /\ ret'.recs = Take(g_event_queue, k)
                   /\ g_event_queue' = Drop(g_event_queue, k)
       /\ GetNextEvent =>
             IF g_event_queue = <<>>
               THEN /\ ret'.val = FALSE
                    /\ ret'.recs = <<>>
                    /\ UNCHANGED g_event_queue
               ELSE /\ ret'.val = TRUE
                    /\ ret'.recs = Take(g_event_queue, 1)
                    /\ g_event_queue' = Drop(g_event_queue, 1)]_vars

\* Three different records were delivered; get_all_events has returned two of
\* them and the third is still queued.
C13_TwoOfThreeRead ==
    /\ ret.op = "get_all_events"
    /\ ret.val = 2
    /\ Len(ret.recs) = 2
    /\ nrecs = 3
    /\ Len(g_event_queue) = 1
    /\ Cardinality({ret.recs[1], ret.recs[2], g_event_queue[1]}) = 3

\* C19: Indicate gives a record the type "start" exactly when the raw
\* record's class is the creation class and "stop" for every other class, and
\* keeps its name and process id; records are queued in the order they come
\* and get_all_events returns them in that order, so a creation record and
\* then a deletion record of one process are returned as two records, first
\* "start", then "stop", with the same name and process id.
C19_TypeFollowsClass ==
    [][/\ \A raw \in RawRecords :
             IndicateEnqueueOf(raw) =>
                LET e == g_event_queue'[Len(g_event_queue')] IN
                   /\ g_event_queue' = Append(g_event_queue, e)
                   /\ e.event_type =
                         IF raw.cls = CreationClass THEN "start" ELSE "stop"
                   /\ e.process_id = raw.pid
                   /\ raw.name.len < NAME_BUF => e.process_name = raw.name
       /\ \A max \in 1..MaxRecords + 1 :
             GetAllEvents(max) => ret'.recs \o g_event_queue' = g_event_queue
       /\ MakeEvent([cls |-> "__InstanceModificationEvent",
                     name |-> ProcessName, pid |-> 4321]).event_type = "stop"
      ]_vars

\* "notepad.exe" (4321) was seen starting and stopping, and get_all_events has
\* returned the two records.
C19_StartThenStopReturned ==
    /\ nrecs = 2
    /\ g_event_queue = <<>>
    /\ ret = [op |-> "get_all_events", val |-> 2,
              recs |-> <<[event_type |-> "start", process_name |-> ProcessName,
                          process_id |-> 4321],
                         [event_type |-> "stop", process_name |-> ProcessName,
                          process_id |-> 4321]>>]

\* C20: a process name longer than 511 bytes in UTF-8 does not make Indicate
\* turn the record away: the record is queued with the first 511 bytes of the
\* name, and get_next_event returns true for it with a non-empty name.  Every
\* queued name fits the buffer with its terminator.
C20_LongNameTruncated ==
    [][/\ \A raw \in RawRecords :
             IndicateEnqueueOf(raw) /\ raw.name.len > NAME_BUF - 1 =>
                LET e == g_event_queue'[Len(g_event_queue')] IN
                   /\ g_event_queue' = Append(g_event_queue, e)
                   /\ e.process_name =
                         [id |-> raw.name.id, len |-> NAME_BUF - 1]
                   /\ e.process_id = raw.pid
       /\ \A i \in 1..Len(g_event_queue) :
             /\ g_event_queue[i].process_name.len > 0
             /\ g_event_queue[i].process_name.len < NAME_BUF
       /\ GetNextEvent /\ g_event_queue # <<>> =>
             /\ ret'.val = TRUE
             /\ ret'.recs = <<Head(g_event_queue)>>
             /\ ret'.recs[1].process_name.len > 0]_vars

\* The process with the 600-byte name: get_next_event has returned its record
\* with the first 511 bytes of the name.
C20_TruncatedNameRead ==
    /\ ret.op = "get_next_event"
    /\ ret.val = TRUE
    /\ ret.recs = <<[event_type |-> "start",
                     process_name |-> [id |-> "long.exe",
                                       len |-> NAME_BUF - 1],
                     process_id |-> 600]>>

\* The texts Initialize() leaves in g_last_error when it fails.
AbortErrors == {InitializeError(outcome) : outcome \in InitSteps}

\* The last session's thread has ended and the running flag is false.
SessionAborted ==
    /\ pc["main"] = "idle"
    /\ ~g_monitoring
    /\ g_monitor_thread # 0
    /\ threads[g_monitor_thread] = "done"

\* C14: when Initialize() fails on the background thread after
\* start_monitoring returned true, the thread gets there (Initialize() returns),
\* and then is_monitoring() is false, get_last_error() is the non-empty text of
\* that failure and the subscription object has been deleted; a following
\* start_monitoring can be made, does not block and, when its thread is
\* spawned, returns true with the session running.
C14_AbortedSessionRecovers ==
    /\ \A t \in ThreadIds :
          threads[t] = "init" ~> threads[t] \in {"loop", "done"}
    /\ [][\A t \in ThreadIds :
             threads[t] = "init" /\ threads'[t] = "done" =>
                /\ ~is_monitoring'
                /\ get_last_error' \in AbortErrors
                /\ get_last_error' # ERR_NONE
                /\ g_event_sink' = 0
                /\ ~sinks'[g_event_sink].alive
                /\ sinks'[g_event_sink].deletes = 1]_vars
    /\ [](SessionAborted => ENABLED StartMonitoringBegin)
    /\ pc["main"] = "sm_join" ~> pc["main"] = "idle"
    /\ [][pc["main"] = "sm_spawn" /\ threads' # threads =>
             /\ ret' = Return("start_monitoring", TRUE)
             /\ pc'["main"] = "idle"
             /\ is_monitoring']_vars

\* The first session was aborted at the proxy blanket; the start_monitoring
\* that followed has returned true and its thread is in the polling loop.
C14_RestartedAfterAbort ==
    /\ threads = [t \in ThreadIds |-> IF t = 1 THEN "done"
                                      ELSE IF t = 2 THEN "loop" ELSE "unborn"]
    /\ ~sinks[1].alive
    /\ sinks[1].deletes = 1
    /\ ret = Return("start_monitoring", TRUE)
    /\ is_monitoring
    /\ g_monitor_thread = 2
    /\ get_last_error = ERR_BLANKET

\* Everything acquired through the object has been released exactly once: the
\* COM initializations, the reference on the services connection, the
\* reference on the stub and the two registrations.
Balanced(k) ==
    /\ k.com = 0
    /\ k.svcRefs = 0
    /\ k.stubRefs = 0
    /\ ~k.regC
    /\ ~k.regD

\* C15: whatever the step at which Initialize() fails, once Initialize() has
\* returned false and the sink object has been disposed of, every resource
\* acquired before the failing step has been released exactly once, in the
\* first session and in every later one.
C15_FailedInitializeBalanced ==
    [][\A t \in ThreadIds :
          threads[t] = "init" /\ threads'[t] = "done" =>
             /\ sinks'[g_event_sink].deletes = 1
             /\ ~sinks'[g_event_sink].alive
             /\ Balanced(sinks'[g_event_sink])]_vars

\* The callback-only variant, first session, failure at the proxy blanket:
\* Initialize() released the connection and uninitialized COM, and the
\* destructor's Cleanup() has done both again.
C15_ReleasedTwice ==
    /\ threads[1] = "done"
    /\ threads[2] = "unborn"
    /\ get_last_error = ERR_BLANKET
    /\ sinks[1].deletes = 1
    /\ sinks[1].cleanups = 1
    /\ sinks[1].svcRefs = -1
    /\ sinks[1].com = -1

\* What Cleanup() acts on: the two handles, their reference counts, the
\* registrations and the COM initialization count of the calling thread.
SameResources(a, b) ==
    /\ a.svc = b.svc
    /\ a.stub = b.stub
    /\ a.svcRefs = b.svcRefs
    /\ a.stubRefs = b.stubRefs
    /\ a.regC = b.regC
    /\ a.regD = b.regD
    /\ a.com = b.com

\* C16: Cleanup() is idempotent in each of the three implementations: on any
\* live subscription object, a second call leaves the handles and the COM
\* initialization count as the first call left them.
C16_CleanupIdempotent ==
    \A s \in ThreadIds :
       sinks[s].alive =>
          /\ SameResources(SinkCleanup(SinkCleanup(sinks[s])),
                           SinkCleanup(sinks[s]))
          /\ SameResources(CbCleanup(CbCleanup(sinks[s])),
                           CbCleanup(sinks[s]))
          /\ SameResources(PesCleanup(PesCleanup(sinks[s])),
                           PesCleanup(sinks[s]))

\* The listener was registered and cancelled (first Cleanup()), then the
\* object was destroyed (second Cleanup()): the handles were already null, and
\* COM has been uninitialized once more than it was initialized.
C16_SecondCleanupUninitializes ==
    /\ sinks[1].cleanups = 2
    /\ sinks[1].deletes = 1
    /\ ~sinks[1].svc
    /\ ~sinks[1].stub
    /\ sinks[1].svcRefs = 0
    /\ sinks[1].stubRefs = 0
    /\ sinks[1].com = -1

\* A subscription object that has been torn down: no connection, no stub, no
\* registration left.
TornDown(k) ==
    /\ ~k.svc
    /\ ~k.stub
    /\ ~k.regC
    /\ ~k.regD

\* C17: when the creation registration alone fails, the deletion registration
\* succeeding, the session fails and the subscription is torn down: both
\* Initialize() leave a torn-down object and an error text, and OnListen
\* returns an error and leaves a torn-down object.
C17_CreationFailureReported ==
    [][OnListenCall("creation") =>
          /\ TornDown(SinkInitialize(sinks[1], g_com_initialized, "creation"))
          /\ InitializeError("creation") = ERR_CREATION
          /\ TornDown(CbInitialize(sinks[1], "creation"))
          /\ ret'.val # PES_OK
          /\ pc'["main"] # "listening"
          /\ TornDown(sinks'[1])]_vars

\* OnListen has returned nullptr and the listener is attached, with the
\* deletion registration in place and no creation registration.
C17_ListeningWithoutCreation ==
    /\ ret = Return("OnListen", PES_OK)
    /\ pc["main"] = "listening"
    /\ sinks[1].alive
    /\ sinks[1].svc
    /\ sinks[1].stub
    /\ sinks[1].regD
    /\ ~sinks[1].regC

\* C18: when spawning the background thread fails in start_monitoring or
\* start_monitoring_with_callback, the call returns false, the running flag is
\* false again, no callback is registered and the last error is the
\* thread-start failure.
C18_SpawnFailureRolledBack ==
    [][StartSpawnFails =>
          /\ ret'.val = FALSE
          /\ ~g_monitoring'
          /\ g_event_callback' = NullCallback
          /\ g_callback_user_data' = 0
          /\ g_last_error' = ERR_THREAD]_vars

\* start_monitoring has just failed to spawn its thread and returned false,
\* stopped, while the callback of an earlier session, whose thread gave up in
\* Initialize(), is still registered.
C18_StaleCallbackAfterSpawnFailure ==
    /\ ret = Return("start_monitoring", FALSE)
    /\ pc["main"] = "idle"
    /\ get_last_error = ERR_THREAD
    /\ ~g_monitoring
    /\ g_event_callback # NullCallback
    /\ \E t \in ThreadIds : threads[t] = "done"

\* C21: every start_monitoring that has set the running flag and gone on to
\* join the previous thread eventually returns, however the preceding
\* stop_monitoring interleaved with the previous session's polling loop.
C21_StartEventuallyReturns ==
    (pc["main"] = "sm_join") ~> (pc["main"] = "idle")

\* stop_monitoring returned while the thread slept in its loop, and
\* start_monitoring set the flag again before the thread tested it: the thread
\* polls on, and start_monitoring waits in join() for it.
C21_JoinWaitsForPollingThread ==
    /\ pc["main"] = "sm_join"
    /\ ret = Return("stop_monitoring", TRUE)
    /\ g_monitoring
    /\ g_monitor_thread # 0
    /\ threads[g_monitor_thread] = "loop"
    /\ ~ENABLED NextRestart

\* A start has been issued since the last call returned: it is under way or
\* it is the last call that returned.
StartIssued ==
    \/ pc["main"] \in {"sm_join", "sm_spawn", "sc_ud", "sc_join", "sc_spawn"}
    \/ ret.op \in StartOps

\* C22: once stop_monitoring has returned, every background thread still
\* alive eventually terminates, unless a start is issued afterwards.
C22_StoppedThreadTerminates ==
    \A t \in ThreadIds :
       (ret = Return("stop_monitoring", TRUE) /\ pc["main"] = "idle"
          /\ BgAlive(t))
       ~> (threads[t] = "done" \/ StartIssued)

\* stop_monitoring has returned while the thread was in its polling loop, and
\* the thread has since left the loop and ended.
C22_ThreadEndedAfterStop ==
    /\ ret = Return("stop_monitoring", TRUE)
    /\ pc["main"] = "idle"
    /\ ~g_monitoring
    /\ g_monitor_thread # 0
    /\ threads[g_monitor_thread] = "done"
    /\ sinks[g_monitor_thread].regC
    /\ g_event_sink = 0

\* C23: whenever Indicate makes its callback call, whatever stop_monitoring
\* and start_monitoring_with_callback are doing, the pointer it calls is not
\* null and the user data it passes is the one registered together with that
\* callback.
C23_CallbackPairAtomic ==
    [][dlv.pc = "call" /\ dlv' # dlv =>
          \A c \in CallArgs : c.f # NullCallback /\ c.ud = c.f]_vars

\* Indicate found a callback registered, stop_monitoring cleared it and
\* returned, and the call went through the pointer read again: a call through
\* a null pointer.
C23_CalledThroughNull ==
    /\ dlv = Crashed
    /\ g_event_callback = NullCallback
    /\ ret = Return("stop_monitoring", TRUE)
    /\ pc["main"] = "idle"

\* A start has succeeded: a background thread has been spawned.
Started == \E t \in ThreadIds : threads[t] # "unborn"

\* C24: start_monitoring_with_callback does all start_monitoring does: once a
\* start of either kind has succeeded the wake signal exists, Indicate raises
\* it for each record it delivers, and wait_for_events does not return -1.
C24_CallbackStartEnsuresSignal ==
    [][/\ Started' => g_event_available' # 0
       /\ Started /\ dlv.pc = "chk" /\ dlv' # dlv => dlv'.pc = "set"
       /\ Started /\ WaitReturned => ret'.val # -1]_vars

\* The first start of the process was start_monitoring_with_callback: the
\* session runs, a record has been delivered, no wake signal was ever created
\* and wait_for_events has returned -1.
C24_WaitFailsInCallbackSession ==
    /\ ret = Return("wait_for_events", -1)
    /\ nhandles = 0
    /\ g_event_available = 0
    /\ g_monitoring
    /\ g_event_callback # NullCallback
    /\ \E t \in ThreadIds : threads[t] = "loop"
    /\ g_event_queue # <<>>

\* C25: whenever the queue mutex is free (between any two steps), the queue
\* holds at most 1000 records, however Indicate interleaves with
\* get_next_event, get_all_events, start_monitoring and
\* cleanup_process_monitor.
C25_QueueWithinCap == Len(g_event_queue) <= QUEUE_CAP

\* A record has been pushed onto the full queue: the oldest record is gone
\* and the queue is at its cap.
C25_PushedOntoFullQueue ==
    /\ nrecs = QUEUE_CAP + 1
    /\ Len(g_event_queue) = QUEUE_CAP
    /\ g_event_queue[1].process_id = 2
    /\ g_event_queue[QUEUE_CAP].process_id = QUEUE_CAP + 1

\* C26: cleanup_process_monitor detaches the background thread only when the
\* thread is still running at the end of the bounded wait; a thread that has
\* already ended is joined, not detached.
C26_DetachOnlyRunningThread ==
    [][\A c \in Callers :
          CleanupDetach(c) /\ g_monitor_thread # 0 =>
             BgAlive(g_monitor_thread)]_vars

\* The session was stopped and its thread had ended before
\* cleanup_process_monitor was called; cleanup has waited out its grace
\* period and detached the thread.
C26_EndedThreadDetached ==
    /\ \E c \in Callers : pc[c] = "cu_sink"
    /\ hist.life = "stopped"
    /\ threads[1] = "done"
    /\ threads[2] = "unborn"
    /\ g_monitor_thread = 0

\* Indicate has appended a record and has not yet raised the signal for it.
SignalPending == dlv.pc \in {"chk", "set"}

\* C27: the signal is raised under the lock of the enqueue: between the
\* moment Indicate appends a record and the moment it raises the signal for
\* that record, no get_next_event and no get_all_events reads or drains the
\* queue.
C27_SignalUnderEnqueueLock ==
    [][SignalPending =>
          /\ ~GetNextEvent
          /\ \A max \in 0..MaxRecords + 1 : ~GetAllEvents(max)
          /\ g_event_queue' = g_event_queue]_vars

\* The one record delivered so far has been appended and already taken by
\* get_next_event; Indicate is only now about to raise the signal for it.
C27_DrainedBeforeSignal ==
    /\ dlv.pc = "set"
    /\ nrecs = 1
    /\ ~signaled
    /\ g_event_queue = <<>>
    /\ ret.op = "get_next_event"
    /\ ret.val = TRUE
    /\ Len(ret.recs) = 1

\* C28: at most one subscription object holds registrations with the
\* service at any time: when a session's subscription registers, those of the
\* previous sessions have been cancelled.
C28_OneSubscription == Cardinality(Outstanding) <= 1

\* The first session was stopped and its thread has ended without cancelling
\* its two queries; the second session runs with its own: every process start
\* is delivered to both objects.
C28_TwoSubscriptions ==
    /\ threads[1] = "done"
    /\ threads[2] = "loop"
    /\ g_monitoring
    /\ g_event_sink = 2
    /\ \A s \in ThreadIds :
          sinks[s].alive /\ sinks[s].regC /\ sinks[s].regD
    /\ ~cleanup_in_progress

\* C29: a wait_for_events that returns because the signal fired returns at
\* least 1, however it interleaves with start_monitoring and Indicate (and the
\* gets): 0 is returned only when the timeout ran out.
C29_SignaledWaitReturnsPositive ==
    [][WaitSize => ret'.val >= 1]_vars

\* The wait has been woken by the signal with no delivery under way and the
\* queue empty: the record the signal was raised for has been removed by the
\* queue reset of a second start_monitoring, which leaves the signal alone.
C29_WokenWithEmptyQueue ==
    /\ pc["main"] = "w_size"
    /\ g_event_queue = <<>>
    /\ dlv.pc = "idle"
    /\ nrecs > 0
    /\ ~signaled
    /\ threads[2] # "unborn"

\* C30: once cleanup_process_monitor has closed the wake signal, the handle is
\* not used again: Indicate does not call SetEvent on it and wait_for_events
\* is not waiting on it, even when they tested the pointer before the close.
C30_NoUseAfterRelease ==
    [][/\ IndicateSetEvent => HandleOpen(dlv.h)
       /\ (pc["main"] = "w_wait" => HandleOpen(loc["main"]))']_vars

\* Both tested the pointer while the signal was open; cleanup_process_monitor
\* closed it on the other thread: wait_for_events is inside
\* WaitForSingleObject on the closed handle and Indicate is about to call
\* SetEvent on it.
C30_ClosedHandleInUse ==
    /\ pc["main"] = "w_wait"
    /\ dlv.pc = "set"
    /\ loc["main"] = dlv.h
    /\ hcloses[dlv.h] = 1
    /\ g_event_available = 0
    /\ pc["aux"] = "idle"

\* C31: in the callback-only variant, start_monitoring gets past its two
\* tests and sets g_monitoring only while g_monitor_thread holds no unjoined
\* thread, so the assignment of the new thread never meets a joinable one.
C31_StartAssignsToJoinedThread ==
    [][pc["main"] = "idle" /\ ~g_monitoring /\ g_monitoring'
          => g_monitor_thread = 0 /\ pc'["main"] = "idle"]_vars

\* The session's Initialize() failed, the thread cleared g_monitoring and
\* ended, and nothing joined it; the next start_monitoring assigned a new
\* thread to the joinable g_monitor_thread and the process was terminated.
C31_AssignedOverEndedThread ==
    /\ pc["main"] = "terminated"
    /\ g_monitor_thread # 0
    /\ threads[g_monitor_thread] = "done"
    /\ g_last_error \in {InitializeError(o) : o \in CbInitSteps}
    /\ ret = Return("start_monitoring", TRUE)

\* A stop_monitoring that found the monitor running has returned and no
\* start_monitoring has been made since, as far as a state shows it: the
\* controller is between calls, its last call was stop_monitoring, the
\* callback is cleared and no Indicate is inside its loop.
CbStoppedQuiet ==
    /\ pc["main"] = "idle"
    /\ ret = Return("stop_monitoring", TRUE)
    /\ g_event_callback = 0
    /\ g_callback_user_data = 0
    /\ CallbackMutexFree

\* C32: in the callback-only variant, when a stop_monitoring that found the
\* monitor running returns, the callback is cleared and no Indicate is in its
\* loop; this lasts until the controller's next start_monitoring; and while
\* it lasts no step of Indicate calls the callback, whatever deliveries are
\* under way.
C32_NoCallbackAfterStop ==
    [][/\ (pc["main"] = "cb_join" /\ pc'["main"] = "idle" => CbStoppedQuiet')
       /\ (CbStoppedQuiet =>
              \/ CbStoppedQuiet'
              \/ ret'.op = "start_monitoring"
              \/ pc'["main"] = "terminated")
       /\ (CbStoppedQuiet => \A o \in {"returns", "throws"} :
                                ~CbIndicateCall(o))]_vars

\* stop_monitoring joined the thread and returned while an Indicate, called
\* by the service before the sink was deleted, was waiting for
\* g_callback_mutex: it will find the callback cleared and return.
C32_DeliveryWaitingAtStop ==
    /\ CbStoppedQuiet
    /\ dlv.pc = "cb_enter"
    /\ g_monitor_thread = 0
    /\ \E t \in ThreadIds : threads[t] = "done" /\ sinks[t].deletes = 1
    /\ nrecs > 0

====
